---- MODULE Spec2Model ----
(***************************************************************************)
(* A verification model of tree-house: the highlight composer              *)
(* (highlighter/src/highlighter.rs), the text-predicate engine             *)
(* (bindings/src/query/predicate.rs), the rope input                       *)
(* (bindings/src/ropey.rs), the query compiler with its error locations    *)
(* (bindings/src/query.rs), HighlightQuery::new                            *)
(* (highlighter/src/highlighter.rs), the tree-cursor cache and the         *)
(* recursive walker (bindings/src/tree_cursor.rs) and the cursor over the  *)
(* layers of a syntax (highlighter/src/tree_cursor.rs).                    *)
(*                                                                         *)
(* Highlighter::advance is modelled at the granularity of its loop: one    *)
(* step for the prologue (lines 233-244), one step per iteration of the    *)
(* while loop (lines 245-263: one query event each) and one step for the   *)
(* epilogue (lines 264-276).  The variable pc is the position of the       *)
(* single caller inside advance; the steps cannot interleave with anything *)
(* else, the pass is single-threaded.                                      *)
(***************************************************************************)
EXTENDS Integers, Sequences, FiniteSets, TLC

VARIABLES
    \* ---- Highlighter (highlighter.rs:158-170)
    query,                \* the QueryIter: its cursor state
    next_query_event,     \* the peeked event
    active_highlights,    \* Vec<HighlightedNode>
    next_highlight_end,
    next_highlight_start,
    active_config,        \* the language whose LanguageConfig is active
    current_layer,
    layer_state,          \* LayerData of every layer (held by the QueryIter)
    \* ---- locals of advance (highlighter.rs:233-276)
    pc,                   \* "idle" | "loop" | "panic"
    refresh,
    prev_stack_size,
    pos,
    first_highlight,
    \* ---- what the caller observes
    result,               \* the HighlightEvent last returned
    consumer,             \* the caller's re-materialised copy of the stack
    handled,              \* the Match events handled by the running/last call
    \* ---- text predicates (predicate.rs)
    pred,                 \* the TextPredicate under evaluation
    nodes,                \* the matched nodes of one QueryMatch
    outcome,              \* what satisfied returned
    parsed,               \* what parse_pattern_predicates produced
    \* ---- the input (ropey.rs)
    chunks,               \* RopeInput::src: the lengths of the rope's chunks
    cursor,               \* RopeInput::cursor: the chunk the cursor is on
    call,                 \* the last call on the input and what it returned
    \* ---- Query::new (query.rs)
    source,               \* the query source: the predicates of its patterns
    text_predicates,      \* Query::text_predicates
    patterns,             \* the PatternData collected so far
    text_predicate_start, \* the local of parse_pattern_predicates
    pattern,              \* the pattern being parsed
    step,                 \* the predicates of that pattern parsed so far
    custom_predicate,     \* the invocations of the callback, in order
    query_result,         \* what Query::new returned
    ffi,                  \* the last call into the grammar library
    highlight_non_local,  \* HighlightQuery::new: its non_local_patterns
    \* ---- tree cursors of one thread (tree_cursor.rs)
    CACHE,                \* the thread-local slot: NoCursor or a raw cursor
    live,                 \* the raw cursors that live TreeCursors own
    raw,                  \* every raw cursor: its node, how often released
    handed,               \* the TreeCursor last handed out
    \* ---- ParserErrorLocation::new (query.rs)
    error_source,         \* the source text, as bytes
    error_offset,         \* the byte offset of the error
    location,             \* the ParserErrorLocation made of them
    \* ---- TreeRecursiveWalker (tree_cursor.rs)
    tree,                 \* the syntax tree: the parent of every other node
    root,                 \* TreeRecursiveWalker::root
    queue,                \* TreeRecursiveWalker::queue
    walker_cursor,        \* the node TreeRecursiveWalker::cursor is on
    yielded,              \* what next returned so far, in order
    walker_done,          \* next returned None
    \* ---- TreeCursor over the layers (highlighter/src/tree_cursor.rs)
    syntax,               \* TreeCursor::syntax: the layers and their trees
    current,              \* TreeCursor::current: the layer the cursor is in
    layer_cursor,         \* TreeCursor::cursor: the node it is on
    last                  \* the last call and where the cursor was before it

hvars == <<query, next_query_event, active_highlights, next_highlight_end,
           next_highlight_start, active_config, current_layer, layer_state,
           pc, refresh, prev_stack_size, pos, first_highlight,
           result, consumer, handled>>
pvars == <<pred, nodes, outcome, parsed, chunks, cursor, call>>
qvars == <<source, text_predicates, patterns, text_predicate_start, pattern,
           step, custom_predicate, query_result, ffi, highlight_non_local>>
cvars == <<CACHE, live, raw, handed>>
lvars == <<error_source, error_offset, location>>
wvars == <<tree, root, queue, walker_cursor, yielded, walker_done>>
mvars == <<syntax, current, layer_cursor, last>>
tvars == <<wvars, mvars>>
xvars == <<qvars, cvars, lvars, tvars>>
vars == <<hvars, pvars, xvars>>

(***************************************************************************)
(* Bounds of the model                                                     *)
(***************************************************************************)
\* length of the document in bytes
MaxPos == 3
\* number of events the query iterator yields before it only closes layers
MaxEvents == 4

\* u32::MAX, the sentinel "no position" and Highlight::NONE.  It is only
\* compared, never computed with; TLC's integers are 32-bit signed, so the
\* largest of them stands for it.
U32MAX == 2147483647

Min(a, b) == IF a < b THEN a ELSE b

(***************************************************************************)
(* LanguageConfig of the test languages: the highlight query's tables.     *)
(* Every language of the model uses the same tables.                       *)
(***************************************************************************)
\* Highlight::NONE
NONE == U32MAX

\* the patterns of the highlight query, in source order
Patterns == 0 .. 3

\* the capture each pattern binds its node to; pattern 3 binds it to
\* @local.reference
PatternCapture(p) == CASE p = 0 -> 0
                       [] p = 1 -> 2
                       [] p = 2 -> 1
                       [] OTHER -> 3

\* HighlightQuery::local_reference_capture: Some(3)
local_reference_capture == 3

\* HighlightQuery::non_local_patterns: the patterns carrying (#is-not? local)
non_local_patterns == {2, 3}

\* HighlightQuery::highlight_indices, indexed by capture:
\* captures 0 and 1 are themed (7 and 9), 2 and 3 are not
highlight_indices(c) == CASE c = 0 -> 7
                          [] c = 1 -> 9
                          [] OTHER -> NONE

\* InjectionsQuery::local_definition_captures: capture 4 is themed (11),
\* capture 5 is not in the map
local_definition_captures(c) == IF c = 4 THEN 11 ELSE NONE

(***************************************************************************)
(* The document and its locals.                                            *)
(***************************************************************************)
Texts == <<"x", "y", "z">>

\* source().byte_slice(range): the text of a node
ByteSlice(s, e) == Texts[((s + e) % 3) + 1]

\* ScopeCursor::advance(byte): the innermost scope containing the byte;
\* scope 1 covers [1, MaxPos) and lies inside the root scope 0
ScopeAdvance(byte) == IF byte >= 1 THEN 1 ELSE 0

\* Locals::lookup_reference(scope, text): the capture under which text was
\* defined in scope or an enclosing scope; -1 stands for None.
\* Scope 0 defines "x" (capture 4); scope 1 defines "y" (capture 5) and
\* inherits from scope 0; "z" is defined nowhere.
LookupReference(scope, text) ==
    IF scope = 1 /\ text = "y" THEN 5
    ELSE IF text = "x" THEN 4
    ELSE -1

(***************************************************************************)
(* QueryIter: the stream of query events.  Layer 0 is the root layer;      *)
(* layer 1 is a combined injection into the root layer, layer 2 is an      *)
(* injection into layer 1 that is not combined.                            *)
(***************************************************************************)
Root == 0
InjectionLayers == {1, 2}
Layers == {Root} \cup InjectionLayers

\* Layer::parent
LayerParent(l) == IF l = 2 THEN 1 ELSE Root

\* Injection::combined
InjectionCombined(l) == (l = 1)

NoEvent == [kind |-> "None", start |-> U32MAX, end |-> 0, pattern |-> 0,
            layer |-> 0, finished |-> FALSE]

MatchEvent(l, s, e, p) ==
    [kind |-> "Match", start |-> s, end |-> e, pattern |-> p,
     layer |-> l, finished |-> FALSE]

EnterEvent(l, s, e) ==
    [kind |-> "EnterInjection", start |-> s, end |-> e, pattern |-> 0,
     layer |-> l, finished |-> FALSE]

ExitEvent(l, s, fin) ==
    [kind |-> "ExitInjection", start |-> s, end |-> s, pattern |-> 0,
     layer |-> l, finished |-> fin]

\* QueryIterEvent::start_byte
StartByte(ev) == ev.start

\* QueryIter::current_layer
QCurrentLayer(q) ==
    IF q.stack = <<>> THEN Root ELSE q.stack[Len(q.stack)].layer

\* the end of the range of the injection the iterator is in
QRangeEnd(q) ==
    IF q.stack = <<>> THEN MaxPos ELSE q.stack[Len(q.stack)].end

QCombined(q) ==
    q.stack # <<>> /\ InjectionCombined(q.stack[Len(q.stack)].layer)

\* the nodes of a tree are nested or disjoint
Laminar(ns, s, e) ==
    \A n \in ns : (n[1] < s /\ s < n[2]) => e <= n[2]

Prune(ns, s) == {n \in ns : n[2] > s}

QueryInit ==
    [pos |-> 0, stack |-> <<>>,
     status |-> [l \in InjectionLayers |-> "absent"],
     nodes |-> [l \in Layers |-> {}],
     afterEnter |-> FALSE, lastPattern |-> 0, lastEnd |-> MaxPos + 1, count |-> 0,
     done |-> FALSE]

\* a Match of the current layer: starts at or after the last event and
\* inside the current injection range, is not empty, is a node of the
\* layer's tree, and comes in pattern order among the matches of one byte
\* (the nodes one pattern matches at one byte come outermost first)
QMatches(q) ==
    LET l == QCurrentLayer(q)
        lim == QRangeEnd(q)
    IN  IF q.done \/ q.count >= MaxEvents THEN {}
        ELSE
        { <<MatchEvent(l, x[1], x[2], x[3]),
            [q EXCEPT !.pos = x[1],
                      !.nodes[l] = Prune(@, x[1]) \cup {<<x[1], x[2]>>},
                      !.afterEnter = FALSE,
                      !.lastPattern = x[3],
                      !.lastEnd = x[2],
                      !.count = @ + 1]>> :
          x \in { y \in (q.pos .. lim - 1) \X (1 .. MaxPos) \X Patterns :
                    /\ y[1] < y[2]
                    /\ (y[2] <= lim \/ QCombined(q))
                    /\ Laminar(q.nodes[l], y[1], y[2])
                    /\ (y[1] = q.pos =>
                            \/ y[3] > q.lastPattern
                            \/ y[3] = q.lastPattern /\ y[2] < q.lastEnd) } }

\* EnterInjection of a layer that is absent (first range) or dormant (a
\* later range of a combined injection); the range lies inside the current
\* range and is nested in the parent's tree; a match of the layer follows
QEnters(q) ==
    LET cur == QCurrentLayer(q)
        lim == QRangeEnd(q)
    IN  IF q.done \/ q.afterEnter \/ q.count + 1 >= MaxEvents THEN {}
        ELSE
        { <<EnterEvent(x[1], x[2], x[3]),
            [q EXCEPT !.pos = x[2],
                      !.stack = Append(@, [layer |-> x[1], end |-> x[3]]),
                      !.status[x[1]] = "active",
                      !.nodes[x[1]] = Prune(@, x[2]),
                      !.afterEnter = TRUE,
                      !.lastPattern = 0,
                      !.lastEnd = MaxPos + 1,
                      !.count = @ + 1]>> :
          x \in { y \in InjectionLayers \X (q.pos .. lim - 1) \X (1 .. lim) :
                    /\ y[2] < y[3]
                    /\ LayerParent(y[1]) = cur
                    /\ Laminar(q.nodes[cur], y[2], y[3])
                    /\ \/ q.status[y[1]] = "absent"
                       \/ /\ q.status[y[1]] = "dormant"
                          /\ \A n \in q.nodes[y[1]] : n[2] > y[2] } }

\* ExitInjection at the end of the current range.  state is Some (finished)
\* unless the injection is combined and has further ranges; a layer with a
\* node reaching beyond the range has further ranges
QExits(q) ==
    IF q.done \/ q.afterEnter \/ q.stack = <<>> THEN {}
    ELSE
    LET top == q.stack[Len(q.stack)]
        l == top.layer
        open == Prune(q.nodes[l], top.end)
    IN  { <<ExitEvent(l, top.end, fin),
            [q EXCEPT !.pos = top.end,
                      !.stack = SubSeq(@, 1, Len(@) - 1),
                      !.status[l] = IF fin THEN "done" ELSE "dormant",
                      !.nodes[l] = open,
                      !.lastPattern = 0,
                      !.lastEnd = MaxPos + 1]>> :
          fin \in { f \in BOOLEAN : /\ (~f => InjectionCombined(l))
                                    /\ (f => open = {}) } }

\* the end of the stream
QEnd(q) ==
    IF q.stack = <<>> /\ ~q.afterEnter
    THEN { <<NoEvent, [q EXCEPT !.done = TRUE]>> }
    ELSE {}

\* <QueryIter as Iterator>::next: the events that can come next, each with
\* the iterator state after it
QueryNext(q) == QMatches(q) \cup QEnters(q) \cup QExits(q) \cup QEnd(q)

(***************************************************************************)
(* Highlighter                                                             *)
(***************************************************************************)
\* LayerData::new that starts a layer with a dormant highlight
LayerDataNewStale ==
    [parent_highlights |-> 0,
     dormant_highlights |-> <<[end |-> 1, highlight |-> 7, id |-> 0]>>]

\* LayerData::new (highlighter.rs:146-156)
LayerDataNew == [parent_highlights |-> 0, dormant_highlights |-> <<>>]

\* Highlighter::next_event_offset
NextEventOffset == Min(next_highlight_start, next_highlight_end)

\* process_highlight_end that removes nothing
ProcessHighlightEndKeepsAll(stack, p) == stack

\* Highlighter::process_highlight_end: drop the trailing entries that end
\* at p (rposition of the last entry whose end differs)
ProcessHighlightEnd(stack, p) ==
    LET keep == {i \in 1 .. Len(stack) : stack[i].end # p}
        i == IF keep = {} THEN 0
             ELSE CHOOSE k \in keep : \A j \in keep : j <= k
    IN  SubSeq(stack, 1, i)

\* The field id of a stack entry is not part of HighlightedNode: it tells
\* which Match of the running advance call pushed the entry (its index in
\* handled), and is 0 for the entries of earlier calls (Advance_return
\* resets it).
Earlier(stack) == [i \in 1 .. Len(stack) |-> [stack[i] EXCEPT !.id = 0]]

\* HighlightList: the highlights of a slice of the stack
HighlightList(stack) == [i \in 1 .. Len(stack) |-> stack[i].highlight]


\* the language of a layer
LayerLanguage(l) == CASE l = Root -> "rust"
                      [] l = 1 -> "html"
                      [] OTHER -> "js"

\* QueryIter::current_injection: the state of the layer the iterator is in
CurrentInjection(q) == QCurrentLayer(q)

\* start_highlight without the (#is-not? local) check
ResolveHighlightNoLocalCheck(node) ==
    LET capture == PatternCapture(node.pattern)
        text == ByteSlice(node.start, node.end)
        scope == ScopeAdvance(node.start)
        def == LookupReference(scope, text)
    IN  IF capture = local_reference_capture
        THEN IF def = -1
             THEN [drop |-> TRUE, highlight |-> NONE]
             ELSE [drop |-> FALSE, highlight |-> local_definition_captures(def)]
        ELSE [drop |-> FALSE, highlight |-> highlight_indices(capture)]

\* the highlight start_highlight resolves for a matched node
\* (highlighter.rs:332-373); drop is the early return
ResolveHighlight(node) ==
    LET capture == PatternCapture(node.pattern)
        text == ByteSlice(node.start, node.end)
        scope == ScopeAdvance(node.start)
        def == LookupReference(scope, text)
    IN  IF capture = local_reference_capture
        THEN IF def = -1
             THEN [drop |-> TRUE, highlight |-> NONE]
             ELSE [drop |-> FALSE, highlight |-> local_definition_captures(def)]
        ELSE IF node.pattern \in non_local_patterns /\ def # -1
             THEN [drop |-> TRUE, highlight |-> NONE]
             ELSE [drop |-> FALSE, highlight |-> highlight_indices(capture)]

\* the precedence pop of start_highlight (highlighter.rs:377-384)
PrecedencePop(stack, first, end) ==
    IF ~first /\ stack # <<>> /\ stack[Len(stack)].end = end
    THEN SubSeq(stack, 1, Len(stack) - 1)
    ELSE stack

\* the push of start_highlight (highlighter.rs:385-391)
PushHighlight(stack, node, highlight, id) ==
    IF highlight # NONE
    THEN Append(stack, [end |-> node.end, highlight |-> highlight,
                        id |-> id])
    ELSE stack

\* Highlighter::start_highlight: the stack after it
StartHighlightStack(stack, first, node, id) ==
    LET r == ResolveHighlight(node)
    IN  IF r.drop THEN stack
        ELSE PushHighlight(PrecedencePop(stack, first, node.end), node,
                           r.highlight, id)

\* Highlighter::start_highlight: first_highlight after it
StartHighlightFirst(first, node) ==
    LET r == ResolveHighlight(node)
    IN  IF r.drop \/ r.highlight = NONE THEN first ELSE FALSE

\* advance, highlighter.rs:264-267: the end of the innermost entry.
\* NextHighlightEndOffByOne is the same with an off-by-one.
NextHighlightEndOffByOne(stack) ==
    IF Len(stack) <= 1 THEN U32MAX ELSE stack[Len(stack)].end

NextHighlightEnd(stack) ==
    IF stack = <<>> THEN U32MAX ELSE stack[Len(stack)].end

\* deactivate_layer that drains nothing
DrainNothing(parent_highlights, stack) == Len(stack)

\* deactivate_layer that drains the whole stack
DrainAll(parent_highlights, stack) == 0

\* the index deactivate_layer drains from (highlighter.rs:315)
DrainFrom(parent_highlights, stack) == Min(parent_highlights, Len(stack))

\* Highlighter::advance_query_iter with r the outcome of QueryIter::next
AdvanceQueryIter(r) ==
    /\ current_layer' = QCurrentLayer(query)
    /\ next_query_event' = r[1]
    /\ query' = r[2]
    /\ next_highlight_start' =
           IF r[1].kind = "None" THEN U32MAX ELSE StartByte(r[1])

(***************************************************************************)
(* Text predicates (bindings/src/query/predicate.rs)                       *)
(***************************************************************************)
\* number of matched nodes of one QueryMatch
MaxNodes == 3

\* ---- the input: a rope (bindings/src/ropey.rs)
\* `offset - self.cursor.offset() > 4906`: a jump further than this reseats
\* the cursor
FarJump == 4906

\* length in bytes of the small documents of SpecInput
DocLen == 4

\* the byte of the document at offset i: the text is "abbabbabb..."
SourceByte(i) == IF i % 3 = 0 THEN "a" ELSE "b"

RECURSIVE Sum(_)
Sum(lens) == IF lens = <<>> THEN 0 ELSE Head(lens) + Sum(Tail(lens))

\* RopeSlice::len_bytes; chunks holds the length of every chunk of the rope
SourceLen == Sum(chunks)

\* RopeSlice::byte_slice(a..b)
SourceSlice(a, b) == [k \in 1 .. b - a |-> SourceByte(a + k - 1)]

\* bytes[a..b] of a Rust slice (0-based, half-open)
Slice(bytes, a, b) == SubSeq(bytes, a + 1, b)

\* Cursor::offset of a cursor on chunk c
ChunkOffset(c) == Sum(SubSeq(chunks, 1, c - 1))

\* Cursor::chunk().len() of a cursor on chunk c
ChunkLen(c) == chunks[c]

\* &cursor.chunk()[a..b] of a cursor on chunk c
ChunkSlice(c, a, b) == SourceSlice(ChunkOffset(c) + a, ChunkOffset(c) + b)

\* RopeyCursor::new: the cursor on the first chunk
RopeyCursorNew == 1

\* RopeyCursor::at(src, offset): the cursor on the chunk that holds the
\* byte at offset; on the last chunk when offset is the length of the rope
RopeyCursorAt(offset) ==
    CHOOSE c \in DOMAIN chunks :
        /\ ChunkOffset(c) <= offset
        /\ offset < ChunkOffset(c) + ChunkLen(c) \/ c = Len(chunks)

\* the loop of cursor_at (ropey.rs:48-52): advance chunk by chunk until
\* the chunk reaches beyond offset or Cursor::advance fails (last chunk)
RECURSIVE AdvanceTo(_, _)
AdvanceTo(c, offset) ==
    IF ChunkOffset(c) + ChunkLen(c) <= offset /\ c < Len(chunks)
    THEN AdvanceTo(c + 1, offset)
    ELSE c

\* cursor_at that never reseats the cursor
cursor_at_forward_only(c, offset) == AdvanceTo(c, offset)

\* RopeInput::cursor_at (ropey.rs:35-55, ropey2.rs:31-51) with the cursor
\* on chunk c: the chunk the returned cursor is on
cursor_at(c, offset) ==
    IF offset < ChunkOffset(c) \/ offset - ChunkOffset(c) > FarJump
    THEN RopeyCursorAt(offset)
    ELSE AdvanceTo(c, offset)

\* Input::eq (ropey.rs:57-66)
InputEq(range1, range2) ==
    SourceSlice(range1[1], range1[2]) = SourceSlice(range2[1], range2[2])

\* what input_matches_str returns or does, and the chunk it leaves the
\* cursor on
Returns(b, c) == [result |-> IF b THEN "true" ELSE "false", cursor |-> c]
Panics(c) == [result |-> "panic", cursor |-> c]

\* the while loop of input_matches_str (predicate.rs:61-69) with the cursor
\* on chunk c and about to advance; on the last chunk advance fails.
\* Slicing a chunk beyond its length panics.
RECURSIVE input_matches_rest(_, _, _)
input_matches_rest(str, c, end) ==
    IF c >= Len(chunks) THEN Returns(FALSE, c)
    ELSE LET n == c + 1
         IN  IF Len(str) <= ChunkLen(n)
             THEN IF end - ChunkOffset(n) > ChunkLen(n) THEN Panics(n)
                  ELSE Returns(ChunkSlice(n, 0, end - ChunkOffset(n)) = str, n)
             ELSE IF Slice(str, 0, ChunkLen(n)) # ChunkSlice(n, 0, ChunkLen(n))
             THEN Returns(FALSE, n)
             ELSE input_matches_rest(Slice(str, ChunkLen(n), Len(str)), n, end)

\* input_matches_str (predicate.rs:45-72) on an input whose cursor is on
\* chunk cur
InputMatchesStr(cur, str, range) ==
    IF Len(str) # range[2] - range[1] THEN Returns(FALSE, cur)
    ELSE
    LET c == cursor_at(cur, range[1])
        start_in_chunk == range[1] - ChunkOffset(c)
        rest == ChunkLen(c) - start_in_chunk
    IN  IF range[2] - ChunkOffset(c) <= ChunkLen(c)
        THEN Returns(ChunkSlice(c, start_in_chunk, range[2] - ChunkOffset(c))
                        = str, c)
        ELSE IF ChunkSlice(c, start_in_chunk, ChunkLen(c)) # Slice(str, 0, rest)
        THEN Returns(FALSE, c)
        ELSE input_matches_rest(Slice(str, 0, rest), c, range[2])

\* input_matches_str: whether it returns true
input_matches_str(str, range) ==
    InputMatchesStr(cursor, str, range).result = "true"

\* Regex::is_match on the bytes of a node.  The regexes of the model are
\* literals: such a regex matches when the literal occurs in the text.
RegexIsMatch(regex, text) ==
    \E i \in 0 .. Len(text) - Len(regex) :
        Slice(text, i, i + Len(regex)) = regex

\* Iterator::all and Iterator::any over the test results bs, as
\* satisfied_helper calls them: matched != negated, stopping at the first
\* element that decides
RECURSIVE IterAll(_, _)
IterAll(bs, negated) ==
    IF bs = <<>> THEN TRUE
    ELSE IF Head(bs) # negated THEN IterAll(Tail(bs), negated)
    ELSE FALSE

RECURSIVE IterAny(_, _)
IterAny(bs, negated) ==
    IF bs = <<>> THEN FALSE
    ELSE IF Head(bs) # negated THEN TRUE
    ELSE IterAny(Tail(bs), negated)

\* satisfied_helper that takes every predicate for an any- predicate
satisfied_helper_any(p, bs) == IterAny(bs, p.negated)

\* TextPredicate::satisfied_helper
satisfied_helper(p, bs) ==
    IF p.match_all THEN IterAll(bs, p.negated) ELSE IterAny(bs, p.negated)

\* the number of times satisfied_helper calls next() on its iterator: up to
\* and with the first element that decides, or once more than there are
\* elements (the call that returns None)
RECURSIVE Pulled(_, _)
Pulled(bs, stop) ==
    IF bs = <<>> THEN 1
    ELSE IF Head(bs) = stop THEN 1
    ELSE 1 + Pulled(Tail(bs), stop)

\* matched_nodes.iter().filter(|n| n.capture == capture)
CaptureNodes(ns, capture) == SelectSeq(ns, LAMBDA n : n.capture = capture)

\* the test of one node under a predicate that is not EqCapture
\* (predicate.rs:94-97, 113-130)
NodeTest(p, n) ==
    CASE p.kind = "EqString" -> input_matches_str(p.str, n.range)
      [] p.kind = "MatchString" ->
            RegexIsMatch(p.str, SourceSlice(n.range[1], n.range[2]))
      [] p.kind = "AnyString" ->
            \E i \in DOMAIN p.strings :
                /\ Len(p.strings[i]) = n.range[2] - n.range[1]
                /\ input_matches_str(p.strings[i], n.range)

\* the EqCapture arm of satisfied (predicate.rs:98-112).  zip takes the
\* next node of capture_nodes first and the next of other_nodes only when
\* there was one; an element taken by a call that returns None is gone.
EqCaptureSatisfied(p, ns) ==
    LET capture_nodes == CaptureNodes(ns, p.capture)
        other_nodes == CaptureNodes(ns, p.other)
        pairs == Min(Len(capture_nodes), Len(other_nodes))
        bs == [i \in 1 .. pairs |->
                  InputEq(capture_nodes[i].range, other_nodes[i].range)]
        res == satisfied_helper(p, bs)
        calls == Pulled(bs, IF p.match_all THEN p.negated ELSE ~p.negated)
        taken1 == Min(calls, Len(capture_nodes))
        taken2 == Min(taken1, Len(other_nodes))
        consumed_all == taken1 = Len(capture_nodes)
                            /\ taken2 = Len(other_nodes)
    IN  res /\ (~p.match_all \/ consumed_all)

\* TextPredicate::satisfied
satisfied(p, ns) ==
    IF p.kind = "EqCapture" THEN EqCaptureSatisfied(p, ns)
    ELSE LET capture_nodes == CaptureNodes(ns, p.capture)
         IN  satisfied_helper(p, [i \in DOMAIN capture_nodes |->
                                     NodeTest(p, capture_nodes[i])])

\* ---- the predicates of a pattern as the query source states them
Names == {"eq?", "not-eq?", "any-eq?", "any-not-eq?",
          "match?", "not-match?", "any-match?", "any-not-match?",
          "any-of?", "not-any-of?", "other?"}

\* the string literals of the query
QueryStrings == {<<"a">>, <<"b", "a">>}

\* PredicateArg
CaptureArg(c) == [kind |-> "Capture", capture |-> c, str |-> <<>>]
StringArg(str) == [kind |-> "String", capture |-> 0, str |-> str]

\* Predicate: name and arguments; every predicate of the model has two
\* arguments
Predicates ==
    { [name |-> n, args |-> <<a, b>>] :
        n \in Names,
        a \in {CaptureArg(0), StringArg(<<"a">>)},
        b \in {CaptureArg(1)} \cup {StringArg(str) : str \in QueryStrings} }

NoPredicate == [name |-> "", args |-> <<>>]

\* what parse_pattern_predicates makes of one predicate: a TextPredicate
\* (tag "text"), a UserPredicate handed to the callback (tag "user") or an
\* InvalidPredicateError (tag "err")
NoPred == [tag |-> "none", capture |-> 0, kind |-> "", name |-> "", str |-> <<>>,
           other |-> 0, strings |-> <<>>, negated |-> FALSE,
           match_all |-> FALSE]

Invalid == [NoPred EXCEPT !.tag = "err"]

\* the eq? family (predicate.rs:158-175)
ParseEq(p) ==
    IF Len(p.args) # 2 THEN Invalid
    ELSE IF p.args[1].kind # "Capture" THEN Invalid
    ELSE LET negated == p.name \in {"not-eq?", "not-any-eq?"}
             match_all == p.name \in {"eq?", "not-eq?"}
         IN  IF p.args[2].kind = "Capture"
             THEN [NoPred EXCEPT !.tag = "text", !.capture = p.args[1].capture,
                                 !.kind = "EqCapture",
                                 !.other = p.args[2].capture,
                                 !.negated = negated, !.match_all = match_all]
             ELSE [NoPred EXCEPT !.tag = "text", !.capture = p.args[1].capture,
                                 !.kind = "EqString", !.str = p.args[2].str,
                                 !.negated = negated, !.match_all = match_all]

\* Regex::builder().build: the literals of the model are valid regexes
\* but "(", an unclosed group
BadRegex == <<"(">>
RegexBuilds(regex) == regex # BadRegex

\* the match? family (predicate.rs:177-194)
ParseMatch(p) ==
    IF Len(p.args) # 2 THEN Invalid
    ELSE IF p.args[1].kind # "Capture" \/ p.args[2].kind # "String" THEN Invalid
    ELSE IF ~RegexBuilds(p.args[2].str) THEN Invalid
    ELSE [NoPred EXCEPT !.tag = "text", !.capture = p.args[1].capture,
                        !.kind = "MatchString", !.str = p.args[2].str,
                        !.negated = p.name \in {"not-match?", "any-not-match?"},
                        !.match_all = p.name \in {"match?", "not-match?"}]

\* any-of? and not-any-of? handed to the callback whatever the first argument
ParseAnyOfCallback(p) ==
    LET args == SubSeq(p.args, 2, Len(p.args))
    IN  IF Len(p.args) < 1 THEN Invalid
        ELSE IF \E i \in DOMAIN args : args[i].kind # "String" THEN Invalid
        ELSE [NoPred EXCEPT !.tag = "user", !.kind = "IsAnyOf",
                            !.str = p.args[1].str,
                            !.strings = [i \in DOMAIN args |-> args[i].str],
                            !.negated = p.name = "not-any-of?"]

\* any-of? and not-any-of? (predicate.rs:218-253)
ParseAnyOf(p) ==
    LET negated == p.name = "not-any-of?"
        args == SubSeq(p.args, 2, Len(p.args))
        values == [i \in DOMAIN args |-> args[i].str]
    IN  IF Len(p.args) < 1 THEN Invalid
        ELSE IF \E i \in DOMAIN args : args[i].kind # "String" THEN Invalid
        ELSE IF p.args[1].kind = "Capture"
        THEN [NoPred EXCEPT !.tag = "text", !.capture = p.args[1].capture,
                            !.kind = "AnyString", !.strings = values,
                            !.negated = negated, !.match_all = FALSE]
        ELSE [NoPred EXCEPT !.tag = "user", !.kind = "IsAnyOf",
                            !.str = p.args[1].str, !.strings = values,
                            !.negated = negated]

\* QueryProperty::parse: a key and an optional value, both literals; val is
\* <<>> for None and <<v>> for Some(v)
QueryPropertyParse(p) ==
    IF Len(p.args) < 1 \/ Len(p.args) > 2 THEN [tag |-> "err"]
    ELSE IF \E i \in DOMAIN p.args : p.args[i].kind # "String"
    THEN [tag |-> "err"]
    ELSE [tag |-> "ok", key |-> p.args[1].str,
          val |-> IF Len(p.args) = 2 THEN <<p.args[2].str>> ELSE <<>>]

\* set! (predicate.rs:196-205): UserPredicate::SetProperty; str is its key,
\* strings its val
ParseSet(p) ==
    LET property == QueryPropertyParse(p)
    IN  IF property.tag = "err" THEN Invalid
        ELSE [NoPred EXCEPT !.tag = "user", !.kind = "SetProperty",
                            !.str = property.key, !.strings = property.val]

\* is? and is-not? (predicate.rs:206-216): UserPredicate::IsPropertySet;
\* negated is its negate
ParseIs(p) ==
    LET property == QueryPropertyParse(p)
    IN  IF property.tag = "err" THEN Invalid
        ELSE [NoPred EXCEPT !.tag = "user", !.kind = "IsPropertySet",
                            !.negated = p.name = "is-not?",
                            !.str = property.key, !.strings = property.val]

\* parse_pattern_predicates, the match on predicate.name()
\* (predicate.rs:157-258)
ParsePredicate(p) ==
    CASE p.name \in {"eq?", "not-eq?", "any-eq?", "any-not-eq?"} -> ParseEq(p)
      [] p.name \in {"match?", "not-match?", "any-match?", "any-not-match?"}
            -> ParseMatch(p)
      [] p.name = "set!" -> ParseSet(p)
      [] p.name \in {"is-not?", "is?"} -> ParseIs(p)
      [] p.name \in {"any-of?", "not-any-of?"} -> ParseAnyOf(p)
      [] OTHER -> [NoPred EXCEPT !.tag = "user", !.kind = "Other",
                                 !.name = p.name]

\* MatchedNode: capture and byte range of the node
NodeRanges == {<<0, 1>>, <<2, 3>>, <<1, 3>>}
MatchedNodes == [capture : {0, 1}, range : NodeRanges]
NodeSeqs == UNION {[1 .. n -> MatchedNodes] : n \in 0 .. MaxNodes}

NotEvaluated == [done |-> FALSE, value |-> FALSE]

\* from: the chunk the cursor was on before the call
NoCall == [op |-> "none", from |-> 0, offset |-> 0, str |-> <<>>,
           range |-> <<0, 0>>, result |-> ""]

\* RopeInput::new on a rope of two chunks of two bytes
InputIdle ==
    /\ chunks = <<2, 2>>
    /\ cursor = RopeyCursorNew
    /\ call = NoCall

\* no predicate is parsed or evaluated
PredIdle ==
    /\ pred = NoPred
    /\ nodes = <<>>
    /\ outcome = NotEvaluated
    /\ parsed = NoPredicate

\* ---- Query::new (bindings/src/query.rs)
\* number of patterns of a query
MaxPatterns == 2

\* what Query::new returned: nothing yet (kind "running"), Ok(query),
\* Err(ParseError::InvalidPredicate) or a panic; pattern and step say where
\* parsing failed and err is the InvalidPredicateError
NoResult == [kind |-> "running", pattern |-> 0, step |-> 0, err |-> "none"]

NoFfi == [fn |-> "none", id |-> 0]

\* no query is compiled
QueryIdle ==
    /\ source = <<>>
    /\ text_predicates = <<>>
    /\ patterns = <<>>
    /\ text_predicate_start = 0
    /\ pattern = 0
    /\ step = 0
    /\ custom_predicate = <<>>
    /\ query_result = NoResult
    /\ ffi = NoFfi
    /\ highlight_non_local = {}

\* ---- tree cursors (bindings/src/tree_cursor.rs)
\* number of raw cursors the grammar library allocates
MaxCursors == 3

\* the nodes of the tree
Nodes == {"root", "child", "leaf"}

\* None in the CACHE; the raw cursors are 1 .. MaxCursors
NoCursor == 0
RawCursors == 1 .. MaxCursors

\* a raw cursor that ts_tree_cursor_new or ts_tree_cursor_copy has not
\* returned yet
Unallocated == [node |-> "none", deleted |-> 0]

NotHanded == [op |-> "none", cursor |-> NoCursor, cached |-> FALSE,
              node |-> "none", was |-> "none"]

\* thread_local CACHE = Cell::new(None) (tree_cursor.rs:11-13)
CursorIdle ==
    /\ CACHE = NoCursor
    /\ live = {}
    /\ raw = [c \in RawCursors |-> Unallocated]
    /\ handed = NotHanded

\* ---- ParserErrorLocation (bindings/src/query.rs)
\* length in bytes of the source texts
MaxText == 4

NoLocation == [kind |-> "none", line |-> 0, column |-> 0, line_content |-> <<>>,
               line_before |-> <<>>, line_after |-> <<>>]

\* no location is computed
LocationIdle ==
    /\ error_source = <<>>
    /\ error_offset = 0
    /\ location = NoLocation

\* ---- TreeRecursiveWalker (bindings/src/tree_cursor.rs)
\* number of nodes of the syntax trees
MaxTreeNodes == 5

\* no walker is made
WalkerIdle ==
    /\ tree = <<>>
    /\ root = 0
    /\ queue = <<>>
    /\ walker_cursor = 0
    /\ yielded = <<>>
    /\ walker_done = FALSE

\* ---- TreeCursor over the layers (highlighter/src/tree_cursor.rs)
NoMove == [op |-> "none", moved |-> FALSE, current |-> 0, node |-> 0]

\* no cursor over the layers is made
LayersIdle ==
    /\ syntax = <<>>
    /\ current = 0
    /\ layer_cursor = 0
    /\ last = NoMove

TreeIdle == WalkerIdle /\ LayersIdle

\* Highlighter::new
HighlighterNew ==
    /\ query = QueryInit
    /\ next_query_event = NoEvent
    /\ active_highlights = <<>>
    /\ next_highlight_end = U32MAX
    /\ next_highlight_start = 0
    /\ active_config = LayerLanguage(Root)
    /\ current_layer = Root
    /\ layer_state = [l \in Layers |-> LayerDataNew]
    /\ pc = "new"
    /\ refresh = FALSE
    /\ prev_stack_size = 0
    /\ pos = 0
    /\ first_highlight = TRUE
    /\ result = [kind |-> "None", list |-> <<>>]
    /\ consumer = <<>>
    /\ handled = <<>>

Init ==
    HighlighterNew /\ PredIdle /\ InputIdle /\ QueryIdle /\ CursorIdle
        /\ LocationIdle
        /\ TreeIdle

\* Highlighter::new, its call of advance_query_iter (highlighter.rs:221)
New ==
    /\ pc = "new"
    /\ \E r \in QueryNext(query) : AdvanceQueryIter(r)
    /\ pc' = "idle"
    /\ UNCHANGED <<active_highlights, next_highlight_end, active_config,
                   layer_state, refresh, prev_stack_size, pos,
                   first_highlight, result, consumer, handled>>
    /\ UNCHANGED <<pvars, xvars>>

\* advance, highlighter.rs:233-244
Advance_begin ==
    /\ pc = "idle"
    /\ refresh' = (next_highlight_end = NextEventOffset)
    /\ prev_stack_size' = Len(active_highlights)
    /\ pos' = NextEventOffset
    /\ active_highlights' =
           IF next_highlight_end = NextEventOffset
           THEN ProcessHighlightEnd(active_highlights, NextEventOffset)
           ELSE active_highlights
    /\ first_highlight' = TRUE
    /\ handled' = <<>>
    /\ pc' = "loop"
    /\ UNCHANGED <<query, next_query_event, next_highlight_end,
                   next_highlight_start, active_config, current_layer,
                   layer_state, result, consumer>>
    /\ UNCHANGED <<pvars, xvars>>

InLoop(kind) ==
    /\ pc = "loop"
    /\ next_highlight_start = pos
    /\ next_query_event.kind = kind

\* advance, one iteration on EnterInjection: enter_injection
\* (highlighter.rs:250, 301-307)
Advance_enter_injection ==
    /\ InLoop("EnterInjection")
    /\ \E r \in QueryNext(query) :
        /\ AdvanceQueryIter(r)
        /\ active_config' = LayerLanguage(QCurrentLayer(query))
        /\ LET data == CurrentInjection(r[2])
           IN  /\ layer_state' =
                      [layer_state EXCEPT
                          ![data].parent_highlights = Len(active_highlights),
                          ![data].dormant_highlights = <<>>]
               /\ active_highlights' =
                      active_highlights \o layer_state[data].dormant_highlights
    /\ UNCHANGED <<next_highlight_end, pc, refresh, prev_stack_size, pos,
                   first_highlight, result, consumer, handled>>
    /\ UNCHANGED <<pvars, xvars>>

\* advance, one iteration on Match: start_highlight
\* (highlighter.rs:251, 320-392)
Advance_start_highlight ==
    /\ InLoop("Match")
    /\ \E r \in QueryNext(query) : AdvanceQueryIter(r)
    /\ active_highlights' =
           StartHighlightStack(active_highlights, first_highlight,
                               next_query_event, Len(handled) + 1)
    /\ first_highlight' = StartHighlightFirst(first_highlight, next_query_event)
    /\ handled' = Append(handled,
                         [id |-> Len(handled) + 1,
                          layer |-> next_query_event.layer,
                          end |-> next_query_event.end,
                          drop |-> ResolveHighlight(next_query_event).drop,
                          highlight |->
                              ResolveHighlight(next_query_event).highlight])
    /\ UNCHANGED <<next_highlight_end, active_config, layer_state, pc,
                   refresh, prev_stack_size, pos, result, consumer>>
    /\ UNCHANGED <<pvars, xvars>>

\* advance, one iteration on ExitInjection (highlighter.rs:252-261) with
\* deactivate_layer (highlighter.rs:309-318)
Advance_exit_injection ==
    /\ InLoop("ExitInjection")
    /\ \E r \in QueryNext(query) :
        /\ AdvanceQueryIter(r)
        /\ active_config' = LayerLanguage(QCurrentLayer(r[2]))
    /\ LET layer == next_query_event.layer
           from == DrainFrom(layer_state[layer].parent_highlights,
                             active_highlights)
       IN  IF ~next_query_event.finished
           THEN /\ layer_state' =
                       [layer_state EXCEPT ![layer].dormant_highlights =
                           @ \o SubSeq(active_highlights, from + 1,
                                       Len(active_highlights))]
                /\ active_highlights' =
                       ProcessHighlightEnd(SubSeq(active_highlights, 1, from),
                                           next_highlight_start')
                /\ refresh' = TRUE
           ELSE UNCHANGED <<layer_state, active_highlights, refresh>>
    /\ UNCHANGED <<next_highlight_end, pc, prev_stack_size, pos,
                   first_highlight, result, consumer, handled>>
    /\ UNCHANGED <<pvars, xvars>>

\* the while loop of advance is over (highlighter.rs:245-248)
LoopOver ==
    /\ pc = "loop"
    /\ next_highlight_start # pos \/ next_query_event.kind = "None"

\* advance, the end of the loop and highlighter.rs:264-276; the slice
\* active_highlights[prev_stack_size..] panics when the stack is shorter.
\* The locals of advance end with the call.
Advance_return ==
    /\ LoopOver
    /\ current_layer' = IF next_highlight_start = pos
                        THEN QCurrentLayer(query) ELSE current_layer
    /\ next_highlight_end' = NextHighlightEnd(active_highlights)
    /\ IF refresh
       THEN /\ result' = [kind |-> "RefreshHighlights",
                          list |-> HighlightList(active_highlights)]
            /\ consumer' = HighlightList(active_highlights)
            /\ pc' = "idle"
       ELSE IF prev_stack_size > Len(active_highlights)
       THEN /\ result' = [kind |-> "Panic", list |-> <<>>]
            /\ consumer' = consumer
            /\ pc' = "panic"
       ELSE /\ result' = [kind |-> "PushHighlights",
                          list |-> HighlightList(
                              SubSeq(active_highlights, prev_stack_size + 1,
                                     Len(active_highlights)))]
            /\ consumer' = consumer \o HighlightList(
                              SubSeq(active_highlights, prev_stack_size + 1,
                                     Len(active_highlights)))
            /\ pc' = "idle"
    /\ active_highlights' = Earlier(active_highlights)
    /\ layer_state' = [l \in Layers |->
           [layer_state[l] EXCEPT !.dormant_highlights = Earlier(@)]]
    /\ refresh' = FALSE
    /\ prev_stack_size' = 0
    /\ first_highlight' = TRUE
    /\ handled' = <<>>
    /\ UNCHANGED <<query, next_query_event, next_highlight_start,
                   active_config, pos>>
    /\ UNCHANGED <<pvars, xvars>>

Next ==
    \/ New
    \/ Advance_begin
    \/ Advance_enter_injection
    \/ Advance_start_highlight
    \/ Advance_exit_injection
    \/ Advance_return

Spec == Init /\ [][Next]_vars

(***************************************************************************)
(* The text predicates of one pattern, parsed and then evaluated on the    *)
(* nodes of one match.                                                     *)
(***************************************************************************)
InitPred ==
    /\ HighlighterNew
    /\ pred = NoPred
    /\ parsed = NoPredicate
    /\ nodes \in NodeSeqs
    /\ outcome = NotEvaluated
    /\ InputIdle
    /\ QueryIdle
    /\ CursorIdle
    /\ LocationIdle
    /\ TreeIdle

\* Query::parse_pattern_predicates on one predicate
ParsePatternPredicates ==
    /\ pred.tag = "none"
    /\ \E p \in Predicates :
        /\ parsed' = p
        /\ pred' = ParsePredicate(p)
    /\ UNCHANGED <<nodes, outcome, chunks, cursor, call>>
    /\ UNCHANGED <<hvars, xvars>>

\* TextPredicate::satisfied on the nodes of the match.  The tests move
\* the cursor of the input (input_matches_str, the regex engine): it is
\* left on some chunk of the rope.
Satisfied ==
    /\ pred.tag = "text"
    /\ ~outcome.done
    /\ outcome' = [done |-> TRUE, value |-> satisfied(pred, nodes)]
    /\ cursor' \in DOMAIN chunks
    /\ UNCHANGED <<pred, parsed, nodes, chunks, call>>
    /\ UNCHANGED <<hvars, xvars>>

NextPred ==
    \/ ParsePatternPredicates
    \/ Satisfied

SpecPred == InitPred /\ [][NextPred]_vars

(***************************************************************************)
(* The input alone: cursor_at and input_matches_str called in any order on *)
(* a rope split into chunks in any way.                                    *)
(***************************************************************************)
\* the ways to split n bytes into chunks that are not empty
RECURSIVE Compositions(_)
Compositions(n) ==
    IF n = 0 THEN {<<>>}
    ELSE UNION { { <<k>> \o t : t \in Compositions(n - k) } : k \in 1 .. n }

\* the ropes: every split of a document of DocLen bytes, and a document
\* with a chunk as long as a far jump
Chunkings == Compositions(DocLen) \cup { <<1, FarJump, 2>> }

\* the offsets of the calls: up to DocLen bytes from either end of the
\* document (all of them in a small document)
Offsets ==
    { o \in (0 .. DocLen) \cup (SourceLen - DocLen .. SourceLen) :
        0 <= o /\ o <= SourceLen }

\* the ranges of the calls, of DocLen bytes at most
Ranges == { r \in Offsets \X Offsets : r[1] <= r[2] /\ r[2] - r[1] <= DocLen }

\* the strings of "a" and "b" of n bytes
RECURSIVE StringsOfLen(_)
StringsOfLen(n) ==
    IF n = 0 THEN {<<>>}
    ELSE { <<b>> \o t : b \in {"a", "b"}, t \in StringsOfLen(n - 1) }

\* the strings a range is compared with: every string as long as the
\* range, and the text of the range without its last byte or, for an empty
\* range, with one byte more
Strings(range) ==
    StringsOfLen(range[2] - range[1])
        \cup { IF range[1] = range[2] THEN <<"a">>
               ELSE SourceSlice(range[1], range[2] - 1) }

InitInput ==
    /\ HighlighterNew
    /\ PredIdle
    /\ chunks \in Chunkings
    /\ cursor = RopeyCursorNew
    /\ call = NoCall
    /\ QueryIdle
    /\ CursorIdle
    /\ LocationIdle
    /\ TreeIdle

\* a call of RopeInput::cursor_at with an offset the debug assertion admits
CursorAt ==
    /\ call.result # "panic"
    /\ \E offset \in Offsets :
        /\ cursor' = cursor_at(cursor, offset)
        /\ call' = [NoCall EXCEPT !.op = "cursor_at", !.from = cursor,
                                  !.offset = offset]
    /\ UNCHANGED <<pred, nodes, outcome, parsed, chunks>>
    /\ UNCHANGED <<hvars, xvars>>

\* a call of input_matches_str
InputMatchesStrCall ==
    /\ call.result # "panic"
    /\ \E range \in Ranges : \E str \in Strings(range) :
        LET r == InputMatchesStr(cursor, str, range)
        IN  /\ cursor' = r.cursor
            /\ call' = [NoCall EXCEPT !.op = "input_matches_str",
                                      !.from = cursor, !.str = str, !.range = range,
                                      !.result = r.result]
    /\ UNCHANGED <<pred, nodes, outcome, parsed, chunks>>
    /\ UNCHANGED <<hvars, xvars>>

NextInput ==
    \/ CursorAt
    \/ InputMatchesStrCall

SpecInput == InitInput /\ [][NextInput]_vars


(***************************************************************************)
(* Query::new: the predicates of every pattern are parsed in turn, one     *)
(* step per predicate of the loop of parse_pattern_predicates              *)
(* (predicate.rs:154-260), then the accessors of the compiled query.       *)
(* The source of a query is a sequence of symbols: the characters of its   *)
(* string literals and, as one symbol each, every other token.             *)
(***************************************************************************)
\* a string literal written with an escape: the value a" is written "a\""
EscapedString == <<"a", "\"">>

\* the predicates that close a pattern of two predicates: one for the
\* callback, one text predicate
Followers ==
    { [name |-> "other?", args |-> <<CaptureArg(0), StringArg(<<"a">>)>>],
      [name |-> "any-of?", args |-> <<CaptureArg(0), StringArg(<<"b">>)>>] }

\* the predicates of the queries
QueryPredicates ==
    { [name |-> n, args |-> <<a, b>>] :
        n \in {"any-of?", "not-any-of?"},
        a \in {CaptureArg(0), StringArg(<<"a">>), StringArg(EscapedString)},
        b \in {CaptureArg(1), StringArg(<<"b">>)} }
    \cup Followers
    \cup { [name |-> "match?", args |-> <<CaptureArg(0), StringArg(BadRegex)>>],
           [name |-> "eq?", args |-> <<CaptureArg(0)>>] }

\* the predicates of one pattern
PatternSources ==
    {<<>>} \cup { <<p>> : p \in QueryPredicates }
           \cup { <<p, q>> : p \in QueryPredicates, q \in Followers }

\* the queries: MaxPatterns patterns at most
Queries == UNION { [1 .. n -> PatternSources] : n \in 1 .. MaxPatterns }

\* the captures of the queries, @0 and @1
Captures == {0, 1}
CaptureText(c) == IF c = 0 THEN "@0" ELSE "@1"

\* a string literal as the query source spells it
RECURSIVE Escape(_)
Escape(str) ==
    IF str = <<>> THEN <<>>
    ELSE (IF Head(str) \in {"\"", "\\"} THEN <<"\\", Head(str)>>
          ELSE <<Head(str)>>) \o Escape(Tail(str))

ArgText(a) ==
    IF a.kind = "Capture" THEN <<" ", CaptureText(a.capture)>>
    ELSE <<" ", "\"">> \o Escape(a.str) \o <<"\"">>

RECURSIVE ArgsText(_)
ArgsText(args) ==
    IF args = <<>> THEN <<>> ELSE ArgText(Head(args)) \o ArgsText(Tail(args))

PredicateText(p) == <<" ", "(", "#", p.name>> \o ArgsText(p.args) \o <<")">>

RECURSIVE PredicatesText(_)
PredicatesText(ps) ==
    IF ps = <<>> THEN <<>>
    ELSE PredicateText(Head(ps)) \o PredicatesText(Tail(ps))

\* the source of a pattern: ((_) @0 @1 predicates...)
PatternText(ps) ==
    <<"(", "(", "_", ")", " ", "@0", " ", "@1">> \o PredicatesText(ps)
        \o <<")">>

\* source[pattern_start..] for pattern k (query.rs:214-218): the text of
\* pattern k and of the patterns after it
RECURSIVE SourceFrom(_)
SourceFrom(k) ==
    IF k >= Len(source) THEN <<>>
    ELSE PatternText(source[k + 1]) \o SourceFrom(k + 1)

\* str::find: whether needle occurs in hay
Find(hay, needle) ==
    \E i \in 1 .. Len(hay) - Len(needle) + 1 :
        SubSeq(hay, i, i + Len(needle) - 1) = needle

\* ts_query_capture_count, ts_query_string_count: the names and the values
\* of the literals of the query
num_captures == Cardinality(Captures)
StringTable ==
    UNION { UNION { {<<source[k][i].name>>}
                      \cup { a.str : a \in { b \in { source[k][i].args[j] :
                                  j \in DOMAIN source[k][i].args } :
                                      b.kind = "String" } } :
                    i \in DOMAIN source[k] } : k \in DOMAIN source }
num_strings == Cardinality(StringTable)

\* InvalidPredicateError::unknown (predicate.rs:386-399): the name the
\* error carries, the key of a property, the first literal of IsAnyOf or the
\* name of Other
unknown(user) ==
    IF user.kind \in {"IsAnyOf", "IsPropertySet", "SetProperty"} THEN user.str
    ELSE <<user.name>>

\* what the callback answers: Ok(()), Err(Other) or
\* Err(InvalidPredicateError::unknown(predicate))
CallbackAnswers == {"Ok", "Other", "unknown"}

\* the closure of map_err (query.rs:213-255) on the error of pattern k at
\* predicate s: expect panics when the name is not found in the source
MapErr(err, name, k, s) ==
    IF err = "Other"
    THEN [kind |-> "InvalidPredicate", pattern |-> k, step |-> s,
          err |-> "Other"]
    ELSE IF Find(SourceFrom(k), name)
    THEN [kind |-> "InvalidPredicate", pattern |-> k, step |-> s,
          err |-> "UnknownPredicate"]
    ELSE [kind |-> "panic", pattern |-> k, step |-> s,
          err |-> "UnknownPredicate"]

\* collect (query.rs:209-257) takes patterns while no error was returned
Collect(res) == res.kind = "running"

\* the predicate the loop of parse_pattern_predicates is at
CurrentPredicate == source[pattern + 1][step + 1]
HasPredicate ==
    /\ Collect(query_result)
    /\ pattern < Len(source)
    /\ step < Len(source[pattern + 1])

\* Query::new is called on a query that the grammar library compiles
InitQuery ==
    /\ HighlighterNew
    /\ PredIdle
    /\ InputIdle
    /\ source \in Queries
    /\ text_predicates = <<>>
    /\ patterns = <<>>
    /\ text_predicate_start = 0
    /\ pattern = 0
    /\ step = 0
    /\ custom_predicate = <<>>
    /\ query_result = NoResult
    /\ ffi = NoFfi
    /\ highlight_non_local = {}
    /\ CursorIdle
    /\ LocationIdle
    /\ TreeIdle

\* one iteration of the loop of parse_pattern_predicates
\* (predicate.rs:154-260) and, on an error, its return through map_err
ParsePredicateStep ==
    /\ HasPredicate
    /\ LET r == ParsePredicate(CurrentPredicate)
       IN  \/ /\ r.tag = "text"
              /\ text_predicates' = Append(text_predicates, r)
              /\ step' = step + 1
              /\ UNCHANGED <<custom_predicate, query_result>>
           \/ /\ r.tag = "err"
              /\ query_result' = MapErr("Other", <<>>, pattern, step)
              /\ UNCHANGED <<text_predicates, step, custom_predicate>>
           \/ /\ r.tag = "user"
              /\ custom_predicate' =
                    Append(custom_predicate,
                           [pattern |-> pattern, predicate |-> r])
              /\ \E answer \in CallbackAnswers :
                    IF answer = "Ok"
                    THEN step' = step + 1 /\ UNCHANGED query_result
                    ELSE /\ query_result' =
                                MapErr(answer, unknown(r), pattern, step)
                         /\ UNCHANGED step
              /\ UNCHANGED text_predicates
    /\ UNCHANGED <<source, patterns, text_predicate_start, pattern, ffi,
                   highlight_non_local>>
    /\ UNCHANGED <<hvars, pvars, cvars, lvars, tvars>>

\* parse_pattern_predicates returns the PatternData (predicate.rs:261-263)
\* and is called for the next pattern, where it starts with
\* let text_predicate_start = self.text_predicates.len() (predicate.rs:141)
PatternParsed ==
    /\ Collect(query_result)
    /\ pattern < Len(source)
    /\ step = Len(source[pattern + 1])
    /\ patterns' =
            Append(patterns, <<text_predicate_start, Len(text_predicates)>>)
    /\ pattern' = pattern + 1
    /\ step' = 0
    /\ text_predicate_start' = Len(text_predicates)
    /\ UNCHANGED <<source, text_predicates, custom_predicate, query_result,
                   ffi, highlight_non_local>>
    /\ UNCHANGED <<hvars, pvars, cvars, lvars, tvars>>

\* Query::new returns the query (query.rs:258-259)
QueryNewOk ==
    /\ query_result.kind = "running"
    /\ pattern = Len(source)
    /\ query_result' = [NoResult EXCEPT !.kind = "Ok"]
    /\ UNCHANGED <<source, text_predicates, patterns, text_predicate_start,
                   pattern, step, custom_predicate, ffi,
                   highlight_non_local>>
    /\ UNCHANGED <<hvars, pvars, cvars, lvars, tvars>>

\* Query::get_string (query.rs:263-276): the call into the library it
\* makes, or the panic of its assertion
get_string(value_id) ==
    IF value_id <= num_strings
    THEN [fn |-> "ts_query_string_value_for_id", id |-> value_id]
    ELSE [fn |-> "panic", id |-> value_id]

\* Query::capture_name (query.rs:279-292)
capture_name(capture_idx) ==
    IF capture_idx <= num_captures
    THEN [fn |-> "ts_query_capture_name_for_id", id |-> capture_idx]
    ELSE [fn |-> "panic", id |-> capture_idx]

\* a call of get_string on the compiled query, with the QueryStr of this
\* query or of a query with one or two strings more
GetString ==
    /\ query_result.kind = "Ok"
    /\ ffi.fn # "panic"
    /\ \E value_id \in 0 .. num_strings + 1 : ffi' = get_string(value_id)
    /\ UNCHANGED <<source, text_predicates, patterns, text_predicate_start,
                   pattern, step, custom_predicate, query_result,
                   highlight_non_local>>
    /\ UNCHANGED <<hvars, pvars, cvars, lvars, tvars>>

\* a call of capture_name on the compiled query
CaptureName ==
    /\ query_result.kind = "Ok"
    /\ ffi.fn # "panic"
    /\ \E capture_idx \in 0 .. num_captures + 1 :
        ffi' = capture_name(capture_idx)
    /\ UNCHANGED <<source, text_predicates, patterns, text_predicate_start,
                   pattern, step, custom_predicate, query_result,
                   highlight_non_local>>
    /\ UNCHANGED <<hvars, pvars, cvars, lvars, tvars>>

\* Query::pattern_text_predicates that ignores where the range starts
pattern_text_predicates_from_start(pattern_idx) ==
    SubSeq(text_predicates, 1, patterns[pattern_idx + 1][2])

\* Query::pattern_text_predicates (query.rs:314-317)
pattern_text_predicates(pattern_idx) ==
    SubSeq(text_predicates, patterns[pattern_idx + 1][1] + 1,
           patterns[pattern_idx + 1][2])

\* Query::pattern_count (query.rs:332-336): ts_query_pattern_count, the
\* number of patterns the library compiled
pattern_count == Len(source)

\* Query::start_byte_for_pattern (query.rs:319-330): the call into the
\* library it makes, or the panic of its assertion
start_byte_for_pattern(pattern_idx) ==
    IF pattern_idx < Len(text_predicates)
    THEN [fn |-> "ts_query_start_byte_for_pattern", id |-> pattern_idx]
    ELSE [fn |-> "panic", id |-> pattern_idx]

\* a call of start_byte_for_pattern on the compiled query with this Pattern
StartByteForPatternCall(pattern_idx) ==
    /\ query_result.kind = "Ok"
    /\ ffi.fn # "panic"
    /\ ffi' = start_byte_for_pattern(pattern_idx)
    /\ UNCHANGED <<source, text_predicates, patterns, text_predicate_start,
                   pattern, step, custom_predicate, query_result,
                   highlight_non_local>>
    /\ UNCHANGED <<hvars, pvars, cvars, lvars, tvars>>

\* the Pattern is one of this query or of a larger query
StartByteForPattern ==
    \E pattern_idx \in 0 .. MaxPatterns + 1 :
        StartByteForPatternCall(pattern_idx)

NextQuery ==
    \/ ParsePredicateStep
    \/ PatternParsed
    \/ QueryNewOk
    \/ GetString
    \/ CaptureName
    \/ StartByteForPattern

SpecQuery == InitQuery /\ [][NextQuery]_vars

\* ---- HighlightQuery::new (highlighter/src/highlighter.rs)
\* the keys and the value of the properties of the highlight queries
LocalScopeInherits == <<"local.scope-inherits">>
Local == <<"local">>
PropertyKeys == {LocalScopeInherits, Local, <<"injection.language">>}
PropertyValue == <<"false">>

\* (#is-not? local)
IsNotLocal == [name |-> "is-not?", args |-> <<StringArg(Local)>>]

\* the predicates of the highlight and locals queries: properties without
\* a key, with a key and with a key and a value, a property whose key is a
\* capture, any-of? on a literal, an unknown predicate and a text predicate
HighlightPredicates ==
    { [name |-> n, args |-> a] :
        n \in {"set!", "is?", "is-not?"},
        a \in {<<>>}
              \cup { <<StringArg(k)>> : k \in PropertyKeys }
              \cup { <<StringArg(k), StringArg(PropertyValue)>> :
                         k \in PropertyKeys } }
    \cup { [name |-> "set!", args |-> <<CaptureArg(0)>>],
           [name |-> "any-of?",
            args |-> <<StringArg(<<"a">>), StringArg(<<"b">>)>>],
           [name |-> "other?", args |-> <<CaptureArg(0)>>],
           [name |-> "eq?", args |-> <<CaptureArg(0), StringArg(<<"a">>)>>] }

\* the predicates of one pattern of these queries
HighlightPatternSources ==
    {<<>>} \cup { <<p>> : p \in HighlightPredicates }
           \cup { <<IsNotLocal, p>> : p \in HighlightPredicates }

\* query_source: highlight_query_text followed by local_query_text
\* (highlighter.rs:41-45)
HighlightQueries ==
    UNION { [1 .. n -> HighlightPatternSources] : n \in 1 .. MaxPatterns }

\* the closure that allows (#set! ...) with every key
HighlightQueryCallbackAnyKey(predicate) ==
    IF predicate.kind = "SetProperty" THEN "Ok"
    ELSE IF /\ predicate.kind = "IsPropertySet"
            /\ predicate.negated
            /\ predicate.str = Local
            /\ predicate.strings = <<>>
    THEN "Ok"
    ELSE "Other"

\* the closure HighlightQuery::new hands to Query::new
\* (highlighter.rs:52-73): what it answers
HighlightQueryCallback(predicate) ==
    IF predicate.kind = "SetProperty" /\ predicate.str = LocalScopeInherits
    THEN "Ok"
    ELSE IF /\ predicate.kind = "IsPropertySet"
            /\ predicate.negated
            /\ predicate.str = Local
            /\ predicate.strings = <<>>
    THEN "Ok"
    ELSE "Other"

\* the closure, whether it inserts the pattern into non_local_patterns
\* (highlighter.rs:63-69)
HighlightQueryInserts(predicate) ==
    /\ predicate.kind = "IsPropertySet"
    /\ predicate.negated
    /\ predicate.str = Local
    /\ predicate.strings = <<>>

\* HighlightQuery::new is called on these query texts
InitHighlightQuery ==
    /\ HighlighterNew
    /\ PredIdle
    /\ InputIdle
    /\ source \in HighlightQueries
    /\ text_predicates = <<>>
    /\ patterns = <<>>
    /\ text_predicate_start = 0
    /\ pattern = 0
    /\ step = 0
    /\ custom_predicate = <<>>
    /\ query_result = NoResult
    /\ ffi = NoFfi
    /\ highlight_non_local = {}
    /\ CursorIdle
    /\ LocationIdle
    /\ TreeIdle

\* one iteration of the loop of parse_pattern_predicates
\* (predicate.rs:154-260) with the closure of HighlightQuery::new as the
\* callback and, on an error, the return through map_err and `?`
\* (highlighter.rs:48-74)
HighlightParsePredicateStep ==
    /\ HasPredicate
    /\ LET r == ParsePredicate(CurrentPredicate)
       IN  \/ /\ r.tag = "text"
              /\ text_predicates' = Append(text_predicates, r)
              /\ step' = step + 1
              /\ UNCHANGED <<custom_predicate, query_result,
                             highlight_non_local>>
           \/ /\ r.tag = "err"
              /\ query_result' = MapErr("Other", <<>>, pattern, step)
              /\ UNCHANGED <<text_predicates, step, custom_predicate,
                             highlight_non_local>>
           \/ /\ r.tag = "user"
              /\ custom_predicate' =
                    Append(custom_predicate,
                           [pattern |-> pattern, predicate |-> r])
              /\ highlight_non_local' =
                    IF HighlightQueryInserts(r)
                    THEN highlight_non_local \cup {pattern}
                    ELSE highlight_non_local
              /\ IF HighlightQueryCallback(r) = "Ok"
                 THEN step' = step + 1 /\ UNCHANGED query_result
                 ELSE /\ query_result' =
                            MapErr(HighlightQueryCallback(r), unknown(r),
                                   pattern, step)
                      /\ UNCHANGED step
              /\ UNCHANGED text_predicates
    /\ UNCHANGED <<source, patterns, text_predicate_start, pattern, ffi>>
    /\ UNCHANGED <<hvars, pvars, cvars, lvars, tvars>>

NextHighlightQuery ==
    \/ HighlightParsePredicateStep
    \/ PatternParsed
    \/ QueryNewOk

SpecHighlightQuery == InitHighlightQuery /\ [][NextHighlightQuery]_vars


(***************************************************************************)
(* The tree cursors of one thread: TreeCursor::new, clone and drop, and    *)
(* the moves of a live cursor, in any order.                               *)
(***************************************************************************)
\* a raw cursor the library has not handed out
Fresh == { c \in RawCursors : raw[c] = Unallocated }

\* ts_tree_cursor_delete
ts_tree_cursor_delete(raws, c) == [raws EXCEPT ![c].deleted = @ + 1]

\* ts_tree_cursor_reset
ts_tree_cursor_reset(raws, c, node) == [raws EXCEPT ![c].node = node]

\* TreeCursor::new that lets the guard taken from the CACHE drop
TakeCachedDropGuard(guard, node) ==
    ts_tree_cursor_reset(ts_tree_cursor_delete(raw, guard), guard, node)

\* TreeCursor::new, the arm Some(guard) (tree_cursor.rs:40-45): the raw
\* cursor is copied out of the guard, the guard is forgotten, so that its
\* Drop does not run, and the cursor is reset to the node
TakeCached(guard, node) == ts_tree_cursor_reset(raw, guard, node)

\* Cell::set in Drop for TreeCursor (tree_cursor.rs:102-106): the guard that
\* was in the CACHE is dropped, which deletes its raw cursor
\* (tree_cursor.rs:26-30)
SetCache(old) ==
    IF old = NoCursor THEN raw ELSE ts_tree_cursor_delete(raw, old)

\* TreeCursor::new(node) (tree_cursor.rs:37-51)
TreeCursorNew ==
    /\ \E node \in Nodes :
        IF CACHE # NoCursor
        THEN /\ raw' = TakeCached(CACHE, node)
             /\ live' = live \cup {CACHE}
             /\ handed' = [op |-> "new", cursor |-> CACHE, cached |-> TRUE,
                           node |-> node, was |-> raw[CACHE].node]
             /\ CACHE' = NoCursor
        ELSE \E c \in Fresh :
             /\ raw' = [raw EXCEPT ![c].node = node]
             /\ live' = live \cup {c}
             /\ handed' = [op |-> "new", cursor |-> c, cached |-> FALSE,
                           node |-> node, was |-> "none"]
             /\ CACHE' = NoCursor
    /\ UNCHANGED <<hvars, pvars, qvars, lvars, tvars>>

\* goto_parent, goto_first_child, ... (tree_cursor.rs:53-100): a live
\* cursor moves to another node
Goto ==
    /\ \E c \in live : \E node \in Nodes :
        /\ node # raw[c].node
        /\ raw' = [raw EXCEPT ![c].node = node]
        /\ handed' = [NotHanded EXCEPT !.op = "goto", !.cursor = c,
                                       !.node = node]
    /\ UNCHANGED <<CACHE, live>>
    /\ UNCHANGED <<hvars, pvars, qvars, lvars, tvars>>

\* Clone for TreeCursor (tree_cursor.rs:108-115): ts_tree_cursor_copy
TreeCursorClone ==
    /\ \E c \in live : \E copy \in Fresh :
        /\ raw' = [raw EXCEPT ![copy].node = raw[c].node]
        /\ live' = live \cup {copy}
        /\ handed' = [NotHanded EXCEPT !.op = "clone", !.cursor = copy,
                                       !.node = raw[c].node]
    /\ UNCHANGED CACHE
    /\ UNCHANGED <<hvars, pvars, qvars, lvars, tvars>>

\* Drop for TreeCursor (tree_cursor.rs:102-106)
TreeCursorDrop ==
    /\ \E c \in live :
        /\ raw' = SetCache(CACHE)
        /\ CACHE' = c
        /\ live' = live \ {c}
        /\ handed' = [NotHanded EXCEPT !.op = "drop", !.cursor = c]
    /\ UNCHANGED <<hvars, pvars, qvars, lvars, tvars>>

NextCursor ==
    \/ TreeCursorNew
    \/ Goto
    \/ TreeCursorClone
    \/ TreeCursorDrop

InitCursor ==
    /\ HighlighterNew
    /\ PredIdle
    /\ InputIdle
    /\ QueryIdle
    /\ CursorIdle
    /\ LocationIdle
    /\ TreeIdle

SpecCursor == InitCursor /\ [][NextCursor]_vars


(***************************************************************************)
(* ParserErrorLocation::new on a source text and a byte offset.  A text is *)
(* a sequence of bytes: "a" is an ASCII letter, "LF" and "CR" the line     *)
(* feed and the carriage return, "E1" "E2" the two bytes of one codepoint. *)
(***************************************************************************)
Bytes == {"a", "LF", "CR", "E1", "E2"}

\* the texts of n bytes that are valid UTF-8: E1 is followed by E2 and E2
\* follows E1
RECURSIVE Utf8(_)
Utf8(n) ==
    IF n = 0 THEN {<<>>}
    ELSE { <<b>> \o t : b \in {"a", "LF", "CR"}, t \in Utf8(n - 1) }
         \cup (IF n < 2 THEN {}
               ELSE { <<"E1", "E2">> \o t : t \in Utf8(n - 2) })

SourceTexts == UNION { Utf8(n) : n \in 0 .. MaxText }

\* str::is_char_boundary
IsCharBoundary(s, i) == i = 0 \/ i = Len(s) \/ (i < Len(s) /\ s[i + 1] # "E2")

\* s[a..b].chars().count()
CharsCount(s, a, b) == Cardinality({ i \in a + 1 .. b : s[i] # "E2" })

\* the byte offset of the first LF of s at or after offset from, or the
\* length of s
RECURSIVE LineEnd(_, _)
LineEnd(s, from) ==
    IF from >= Len(s) \/ s[from + 1] = "LF" THEN from ELSE LineEnd(s, from + 1)

\* strip_suffix('\r').unwrap_or(this_line)
StripCr(l) ==
    IF l # <<>> /\ l[Len(l)] = "CR" THEN SubSeq(l, 1, Len(l) - 1) ELSE l

\* source[..line_start].lines().next_back().filter(|s| !s.is_empty())
\* (query.rs:417-421): the line before, without its line ending; <<>> is None
RECURSIVE LineStartBefore(_, _)
LineStartBefore(s, end) ==
    IF end = 0 \/ s[end] = "LF" THEN end ELSE LineStartBefore(s, end - 1)
LineBefore(s, line_start) ==
    IF line_start = 0 THEN <<>>
    ELSE StripCr(SubSeq(s, LineStartBefore(s, line_start - 1) + 1,
                        line_start - 1))

\* source.get(line_end + 1..).and_then(|rest| rest.lines().next())
\* .filter(|s| !s.is_empty()) (query.rs:422-426): lines strips the CR of a
\* CR LF ending, not a CR at the end of the text
LineAfter(s, line_end) ==
    IF line_end + 1 > Len(s) THEN <<>>
    ELSE LET e == LineEnd(s, line_end + 1)
             l == SubSeq(s, line_end + 2, e)
         IN  IF e < Len(s) THEN StripCr(l) ELSE l

\* the loop of ParserErrorLocation::new (query.rs:407-430) at the line
\* number this_line_no, which starts at byte_offset
RECURSIVE LocationLoop(_, _, _, _)
LocationLoop(s, start, this_line_no, byte_offset) ==
    LET line_start == byte_offset
        line_end == LineEnd(s, byte_offset)
    IN  IF line_start <= start /\ start <= line_end
        THEN IF ~IsCharBoundary(s, start)
             THEN [NoLocation EXCEPT !.kind = "panic"]
             ELSE [kind |-> "ok",
                   line |-> this_line_no,
                   column |-> CharsCount(s, line_start, start),
                   line_content |-> StripCr(SubSeq(s, line_start + 1, line_end)),
                   line_before |-> LineBefore(s, line_start),
                   line_after |-> LineAfter(s, line_end)]
        ELSE IF line_end >= Len(s)
        THEN [NoLocation EXCEPT !.kind = "ok"]
        ELSE LocationLoop(s, start, this_line_no + 1, line_end + 1)

\* ParserErrorLocation::new(source, start, len) (query.rs:399-441); len is
\* copied into the location
ParserErrorLocationNew(s, start) == LocationLoop(s, start, 0, 0)

\* Display for ParserErrorLocation, the header "  --> line:column"
\* (query.rs:445)
DisplayHeader(l) == <<l.line + 1, l.column + 1>>

InitLocation ==
    /\ HighlighterNew
    /\ PredIdle
    /\ InputIdle
    /\ QueryIdle
    /\ CursorIdle
    /\ error_source \in SourceTexts
    /\ error_offset \in 0 .. Len(error_source)
    /\ location = NoLocation
    /\ TreeIdle

\* ParserErrorLocation::new(error_source, error_offset, len)
NewLocation ==
    /\ location.kind = "none"
    /\ location' = ParserErrorLocationNew(error_source, error_offset)
    /\ UNCHANGED <<error_source, error_offset>>
    /\ UNCHANGED <<hvars, pvars, qvars, cvars, tvars>>

NextLocation == NewLocation

SpecLocation == InitLocation /\ [][NextLocation]_vars


(***************************************************************************)
(* TreeRecursiveWalker (bindings/src/tree_cursor.rs).  A syntax tree of n  *)
(* nodes is the sequence of the parents of its nodes 1 .. n - 1; node 0 is *)
(* the root of the tree, a parent has a smaller number than its children   *)
(* and the children of a node are ordered by their numbers.                *)
(***************************************************************************)
Trees ==
    UNION { { t \in [1 .. n - 1 -> 0 .. n - 1] :
                \A i \in 1 .. n - 1 : t[i] < i } :
            n \in 1 .. MaxTreeNodes }

TreeNodes(t) == 0 .. Len(t)
Children(t, n) == { c \in 1 .. Len(t) : t[c] = n }
SetMin(S) == CHOOSE x \in S : \A y \in S : x <= y

\* the nodes below n
RECURSIVE Descendants(_, _)
Descendants(t, n) ==
    Children(t, n) \cup UNION { Descendants(t, c) : c \in Children(t, n) }

\* the siblings after n; the root of the tree has none
LaterSiblings(t, n) ==
    IF n = 0 THEN {} ELSE { c \in Children(t, t[n]) : c > n }

\* TreeCursor::goto_first_child (tree_cursor.rs:65-67): whether the cursor
\* moved and the node it is on
goto_first_child(t, n) ==
    IF Children(t, n) = {} THEN [moved |-> FALSE, node |-> n]
    ELSE [moved |-> TRUE, node |-> SetMin(Children(t, n))]

\* TreeCursor::goto_next_sibling (tree_cursor.rs:57-59)
goto_next_sibling(t, n) ==
    IF LaterSiblings(t, n) = {} THEN [moved |-> FALSE, node |-> n]
    ELSE [moved |-> TRUE, node |-> SetMin(LaterSiblings(t, n))]

\* the while loop of TreeRecursiveWalker::next (tree_cursor.rs:151-159):
\* the queue is popped until a node with a child is found
RECURSIVE PopUntilChild(_, _, _)
PopUntilChild(t, q, at) ==
    IF q = <<>> THEN [found |-> FALSE, node |-> at, queue |-> q]
    ELSE LET child == goto_first_child(t, Head(q))
         IN  IF child.moved
             THEN [found |-> TRUE, node |-> child.node, queue |-> Tail(q)]
             ELSE PopUntilChild(t, Tail(q), Head(q))

\* into_iter (tree_cursor.rs:117-132) on a cursor that is on a node of a
\* tree
InitWalker ==
    /\ HighlighterNew
    /\ PredIdle
    /\ InputIdle
    /\ QueryIdle
    /\ CursorIdle
    /\ LocationIdle
    /\ tree \in Trees
    /\ root \in TreeNodes(tree)
    /\ queue = <<root>>
    /\ walker_cursor = root
    /\ yielded = <<>>
    /\ walker_done = FALSE
    /\ LayersIdle

\* TreeRecursiveWalker::next (tree_cursor.rs:140-163)
WalkerNext ==
    /\ ~walker_done
    /\ LET current_node == walker_cursor
           sibling == goto_next_sibling(tree, current_node)
           popped == PopUntilChild(tree, queue, current_node)
       IN  IF current_node # root /\ sibling.moved
           THEN /\ queue' = Append(queue, current_node)
                /\ walker_cursor' = sibling.node
                /\ yielded' = Append(yielded, sibling.node)
                /\ UNCHANGED walker_done
           ELSE /\ queue' = popped.queue
                /\ walker_cursor' = popped.node
                /\ IF popped.found
                   THEN /\ yielded' = Append(yielded, popped.node)
                        /\ UNCHANGED walker_done
                   ELSE /\ walker_done' = TRUE
                        /\ UNCHANGED yielded
    /\ UNCHANGED <<tree, root>>
    /\ UNCHANGED <<hvars, pvars, qvars, cvars, lvars, mvars>>

NextWalker == WalkerNext

SpecWalker == InitWalker /\ [][NextWalker]_vars


(***************************************************************************)
(* The TreeCursor over the layers of a Syntax                              *)
(* (highlighter/src/tree_cursor.rs).  Layer 1 is injected into the root    *)
(* layer and layer 2 into layer 1, each at a node of its parent layer's    *)
(* tree: the range of the injection is the range of that node, so the     *)
(* injection covers the node and the nodes below it.  site is the set of   *)
(* that node, or empty for a layer the Syntax does not have.               *)
(***************************************************************************)
\* the trees of the injection layers
InjectedTrees == {<<>>, <<0>>}

\* the Syntax: the tree of every layer and the site of every injection
Syntaxes ==
    { s \in [tree : [Layers -> Trees],
             site : [InjectionLayers ->
                        {{}} \cup { {n} : n \in 0 .. MaxTreeNodes - 1 }]] :
        /\ s.tree[1] \in InjectedTrees
        /\ s.tree[2] = <<>>
        /\ \A l \in InjectionLayers :
            s.site[l] \subseteq TreeNodes(s.tree[LayerParent(l)])
        /\ s.site[1] = {} => s.site[2] = {} }

\* Layer::injection_at_byte_idx(range.start) filtered by
\* injection.range.end >= range.end: the layer injected over the node, if
\* there is one
InjectionAt(s, layer, node) ==
    { l \in InjectionLayers :
        /\ LayerParent(l) = layer
        /\ \E n \in s.site[l] :
            node \in {n} \cup Descendants(s.tree[layer], n) }

\* tree_sitter::TreeCursor::goto_parent (bindings/src/tree_cursor.rs:53-55)
\* of a cursor made by Tree::walk
goto_parent(t, n) ==
    IF n = 0 THEN [moved |-> FALSE, node |-> n]
    ELSE [moved |-> TRUE, node |-> t[n]]

\* TreeCursor::goto_parent (tree_cursor.rs:25-39): what it returns, the
\* layer and the node the cursor is on
TreeCursorGotoParent(s, layer, node) ==
    LET up == goto_parent(s.tree[layer], node)
    IN  IF up.moved
        THEN [moved |-> TRUE, current |-> layer, node |-> up.node]
        ELSE IF layer = Root
        THEN [moved |-> FALSE, current |-> layer, node |-> node]
        ELSE [moved |-> TRUE, current |-> LayerParent(layer), node |-> 0]

\* TreeCursor::goto_first_child (tree_cursor.rs:54-68)
TreeCursorGotoFirstChild(s, layer, node) ==
    LET injection == InjectionAt(s, layer, node)
        down == goto_first_child(s.tree[layer], node)
    IN  IF injection # {}
        THEN [moved |-> TRUE, current |-> SetMin(injection), node |-> 0]
        ELSE [moved |-> down.moved, current |-> layer, node |-> down.node]

\* TreeCursor::new (tree_cursor.rs:11-19)
InitLayers ==
    /\ HighlighterNew
    /\ PredIdle
    /\ InputIdle
    /\ QueryIdle
    /\ CursorIdle
    /\ LocationIdle
    /\ WalkerIdle
    /\ syntax \in Syntaxes
    /\ current = Root
    /\ layer_cursor = 0
    /\ last = NoMove

\* a call of goto_first_child
GotoFirstChild ==
    /\ LET r == TreeCursorGotoFirstChild(syntax, current, layer_cursor)
       IN  /\ current' = r.current
           /\ layer_cursor' = r.node
           /\ last' = [op |-> "goto_first_child", moved |-> r.moved,
                       current |-> current, node |-> layer_cursor]
    /\ UNCHANGED syntax
    /\ UNCHANGED <<hvars, pvars, qvars, cvars, lvars, wvars>>

\* a call of goto_parent
GotoParent ==
    /\ LET r == TreeCursorGotoParent(syntax, current, layer_cursor)
       IN  /\ current' = r.current
           /\ layer_cursor' = r.node
           /\ last' = [op |-> "goto_parent", moved |-> r.moved,
                       current |-> current, node |-> layer_cursor]
    /\ UNCHANGED syntax
    /\ UNCHANGED <<hvars, pvars, qvars, cvars, lvars, wvars>>

\* a call of goto_next_sibling (tree_cursor.rs:70-72)
GotoNextSibling ==
    /\ LET r == goto_next_sibling(syntax.tree[current], layer_cursor)
       IN  /\ layer_cursor' = r.node
           /\ last' = [op |-> "goto_next_sibling", moved |-> r.moved,
                       current |-> current, node |-> layer_cursor]
    /\ UNCHANGED <<syntax, current>>
    /\ UNCHANGED <<hvars, pvars, qvars, cvars, lvars, wvars>>

NextLayers ==
    \/ GotoFirstChild
    \/ GotoParent
    \/ GotoNextSibling

SpecLayers == InitLayers /\ [][NextLayers]_vars


(***************************************************************************)
(* Properties of the highlight composer                                    *)
(***************************************************************************)
OnStack(id) == \E k \in DOMAIN active_highlights : active_highlights[k].id = id

\* two Match events of the call, neither dropped by the locals resolution,
\* for the same span of the same layer (all matches of a call start at pos)
SameSpan(i, j) ==
    /\ ~handled[i].drop
    /\ ~handled[j].drop
    /\ handled[i].layer = handled[j].layer
    /\ handled[i].end = handled[j].end

\* C1: when advance has handled two or more matches of the same span (the
\* loop is over, the call is about to return), the
\* entry of the last of them is the one on the stack (if its highlight is
\* not NONE) and the entries of the earlier ones are not on the stack.
C1_LastMatchWins ==
    LoopOver =>
        \A i, j \in DOMAIN handled :
            (i < j /\ SameSpan(i, j)) =>
                /\ ~OnStack(i)
                /\ ((\A k \in DOMAIN handled : k > j => ~SameSpan(j, k))
                        /\ handled[j].highlight # NONE)
                    => \E k \in DOMAIN active_highlights :
                           /\ active_highlights[k].id = j
                           /\ active_highlights[k].end = handled[j].end
                           /\ active_highlights[k].highlight
                                  = handled[j].highlight


\* C2: the caller's copy, replaced on RefreshHighlights and extended on
\* PushHighlights, equals active_highlights() after every advance call;
\* advance returns (its slice does not panic), and it returns
\* PushHighlights only when the stack did not shrink below its size
\* before the call.
C2_DeltasRoundTrip ==
    /\ pc # "panic"
    /\ pc = "idle" => consumer = HighlightList(active_highlights)
    /\ (LoopOver /\ ~refresh) =>
           /\ Len(active_highlights) >= prev_stack_size
           /\ \A i \in 1 .. prev_stack_size : active_highlights[i].id = 0

\* C3: after every advance call, every entry of the stack ends after the
\* position the call processed.
C3_StackDiscipline ==
    (pc = "idle" /\ result.kind # "None") =>
        \A i \in DOMAIN active_highlights : active_highlights[i].end > pos

\* C4: between calls, when the event stream is exhausted and
\* next_event_offset() is u32::MAX, the stack is empty.
C4_EmptyAfterPass ==
    (pc = "idle" /\ next_query_event.kind = "None"
        /\ NextEventOffset = U32MAX) => active_highlights = <<>>

\* a pass is over that pushed highlights and popped them all
C4_Witness ==
    /\ pc = "idle"
    /\ next_query_event.kind = "None"
    /\ NextEventOffset = U32MAX
    /\ result.kind = "RefreshHighlights"
    /\ pos > 0
    /\ query.count >= 2

\* C5: the position the next advance call processes is never before the
\* position the last call processed.
C5_PositionsMonotone ==
    pc = "idle" => NextEventOffset >= pos


\* the cases in which the claim C6 says a match is dropped
LocalReferenceUndefined(node) ==
    /\ PatternCapture(node.pattern) = local_reference_capture
    /\ LookupReference(ScopeAdvance(node.start),
                       ByteSlice(node.start, node.end)) = -1

NonLocalPatternOnLocal(node) ==
    /\ node.pattern \in non_local_patterns
    /\ LookupReference(ScopeAdvance(node.start),
                       ByteSlice(node.start, node.end)) # -1

StackUntouched ==
    /\ active_highlights' = active_highlights
    /\ first_highlight' = first_highlight

Entries(stack) == Earlier(stack)

ExitNone(l) ==
    /\ InLoop("ExitInjection")
    /\ next_query_event.layer = l
    /\ ~next_query_event.finished

Enter(l) ==
    /\ InLoop("EnterInjection")
    /\ next_query_event.layer = l

TestsOf(p, ns) ==
    LET capture_nodes == CaptureNodes(ns, p.capture)
    IN  [i \in DOMAIN capture_nodes |-> NodeTest(p, capture_nodes[i])]

C9_UnequalCountsFail ==
    (/\ outcome.done
     /\ pred.kind = "EqCapture"
     /\ pred.match_all
     /\ Len(CaptureNodes(nodes, pred.capture))
            # Len(CaptureNodes(nodes, pred.other)))
        => ~outcome.value

\* the table of the built-in names: <<negated, match_all>>
Table(name) ==
    CASE name \in {"eq?", "match?"} -> <<FALSE, TRUE>>
      [] name \in {"not-eq?", "not-match?"} -> <<TRUE, TRUE>>
      [] name \in {"any-eq?", "any-match?"} -> <<FALSE, FALSE>>
      [] name \in {"any-not-eq?", "any-not-match?"} -> <<TRUE, FALSE>>

\* C10: the text predicate parsed from a built-in name of the eq? and
\* match? families has the (negated, match_all) pair of the table.
C10_Table ==
    (pred.tag = "text" /\ pred.kind # "AnyString") =>
        <<pred.negated, pred.match_all>> = Table(parsed.name)

(***************************************************************************)
(* Properties of the input                                                 *)
(***************************************************************************)
\* C11: input_matches_str(s, [a,b), input) returns true iff the bytes of
\* the source in [a,b) are the bytes of s, however the source is split
\* into chunks (and it returns: it does not panic).
C11_InputMatchesStr ==
    call.op = "input_matches_str" =>
        call.result = IF SourceSlice(call.range[1], call.range[2]) = call.str
                      THEN "true" ELSE "false"

\* the cursor is on the chunk that holds the byte at offset
OnChunkOf(offset) ==
    /\ ChunkOffset(cursor) <= offset
    /\ offset < ChunkOffset(cursor) + ChunkLen(cursor)

\* C13 as claimed: after every cursor_at call with offset <= source
\* length, cursor.offset() <= offset < cursor.offset() + chunk().len().
C13_CursorAtAsClaimed ==
    call.op = "cursor_at" => OnChunkOf(call.offset)

\* C13 amended: the same for every offset < source length; for offset =
\* source length the cursor is on the last chunk, which ends at offset.
C13_CursorAt ==
    call.op = "cursor_at" =>
        IF call.offset < SourceLen THEN OnChunkOf(call.offset)
        ELSE /\ cursor = Len(chunks)
             /\ call.offset = ChunkOffset(cursor) + ChunkLen(cursor)

\* cursor_at has reseated the cursor for a far jump: from the first chunk
\* to an offset more than FarJump bytes ahead, in the last chunk
C13_Witness ==
    /\ call.op = "cursor_at"
    /\ call.from = 1
    /\ call.offset - ChunkOffset(1) > FarJump
    /\ call.offset < SourceLen
    /\ cursor = Len(chunks)


\* the event advance will handle first is the ExitInjection of a finishing
\* layer, at the offset the call is about to process
FinishingExitDue ==
    /\ next_query_event.kind = "ExitInjection"
    /\ next_query_event.finished
    /\ next_highlight_start = NextEventOffset

\* C18 as claimed: ties at one offset p are resolved in the order
\* ExitInjection of a finishing layer, highlight ends, EnterInjection,
\* matches, highlight starts; in particular no highlight ending at p is
\* removed while a finishing ExitInjection at p is not yet handled.
C18_TieOrderAsClaimed ==
    [][(pc = "idle" /\ FinishingExitDue) =>
            active_highlights' = active_highlights]_vars

\* C18 amended: the highlights ending at p are removed first, when the call
\* begins; whenever advance handles an event at p (the ExitInjection of a
\* finishing layer too), no entry ending at p is on top of the stack any
\* more, unless an event of the same call put it there.
C18_TieOrder ==
    (pc = "loop" /\ next_highlight_start = pos /\ handled = <<>>
        /\ next_query_event.kind \in {"ExitInjection", "Match"}
        /\ active_highlights # <<>>)
    => \/ active_highlights[Len(active_highlights)].end # pos
       \/ Len(active_highlights) > prev_stack_size

\* the ExitInjection of a finishing layer at p is about to be handled in a
\* call that has removed the highlights that ended at p
C18_Witness ==
    /\ InLoop("ExitInjection")
    /\ next_query_event.finished
    /\ refresh
    /\ prev_stack_size > Len(active_highlights)

\* C19: in every state between advance calls, the end values of the stack
\* are non-increasing from bottom to top, also after EnterInjection appended
\* a layer's dormant highlights on top of the parent's entries.
C19_StackOrder ==
    pc = "idle" =>
        \A i, j \in DOMAIN active_highlights :
            i < j => active_highlights[i].end >= active_highlights[j].end

\* the stack just before the step of ExitInjection with state = None
Drained(layer) ==
    SubSeq(active_highlights, layer_state[layer].parent_highlights + 1,
           Len(active_highlights))
Kept(layer) ==
    SubSeq(active_highlights, 1,
           Min(layer_state[layer].parent_highlights, Len(active_highlights)))

\* C20: on ExitInjection of layer L with state = None, exactly the entries
\* at indices >= L.parent_highlights move to L's dormant_highlights, appended
\* in stack order (the entries below stay on the stack or end there, none is
\* moved), and the advance call returns RefreshHighlights.
C20_Deactivate ==
    [][/\ (InLoop("ExitInjection") /\ ~next_query_event.finished) =>
            LET L == next_query_event.layer
            IN  /\ layer_state'[L].dormant_highlights =
                        layer_state[L].dormant_highlights \o Drained(L)
                /\ \A l \in Layers \ {L} : layer_state'[l] = layer_state[l]
                /\ Len(active_highlights') <= Len(Kept(L))
                /\ active_highlights' =
                        SubSeq(Kept(L), 1, Len(active_highlights'))
                /\ refresh'
       /\ (pc = "loop" /\ refresh) =>
            \/ pc' = "loop" /\ refresh'
            \/ pc' = "idle" /\ result'.kind = "RefreshHighlights"]_vars

\* a layer was deactivated while entries of its parent were below its own:
\* its entries are dormant, the parent's are on the stack
C20_Witness ==
    /\ pc = "loop" /\ refresh
    /\ \E l \in InjectionLayers :
            /\ layer_state[l].dormant_highlights # <<>>
            /\ layer_state[l].parent_highlights > 0
            /\ Len(active_highlights) = layer_state[l].parent_highlights


\* C21: whenever start_highlight handles a Match, active_config is the
\* configuration of the language of the layer of the match; after an
\* EnterInjection is handled it is the entered layer's configuration, and
\* after an ExitInjection it is the configuration of the layer that is current
\* after the exit (the layer the iterator was in before it was advanced to
\* the peeked next event).
C21_ActiveConfig ==
    [][/\ InLoop("Match") =>
            active_config = LayerLanguage(next_query_event.layer)
       /\ InLoop("EnterInjection") =>
            active_config' = LayerLanguage(next_query_event.layer)
       /\ InLoop("ExitInjection") =>
            active_config' = LayerLanguage(QCurrentLayer(query))]_vars


\* the handler of the highlighter that the step takes is the one of an event
\* of this kind for this layer
Handles(kind, l) == InLoop(kind) /\ next_query_event.layer = l

LifecycleSteps ==
    {<<"absent", "active">>, <<"active", "dormant">>,
     <<"dormant", "active">>, <<"active", "done">>}

\* C22: dormant_highlights of a layer is empty when the highlighter is built,
\* becomes non-empty only when an ExitInjection with state = None for the
\* layer is handled, is empty again as soon as the next EnterInjection for
\* the layer is handled and is changed by nothing else, so it is non-empty
\* only while the layer is Dormant; the state of a layer only goes from
\* Absent to Active, Active to Dormant, Dormant to Active and Active to Done.
C22_LayerLifecycle ==
    /\ \A l \in InjectionLayers : layer_state[l].dormant_highlights = <<>>
    /\ [][\A l \in InjectionLayers :
           LET dormant == layer_state[l].dormant_highlights
               dormant_after == layer_state'[l].dormant_highlights
           IN  /\ Handles("EnterInjection", l) => dormant_after = <<>>
               /\ dormant_after # dormant =>
                      \/ Handles("EnterInjection", l)
                      \/ /\ Handles("ExitInjection", l)
                         /\ ~next_query_event.finished
                         /\ dormant = <<>>
               /\ Handles("ExitInjection", l) /\ next_query_event.finished =>
                      dormant = <<>>
               /\ query'.status[l] # query.status[l] =>
                      <<query.status[l], query'.status[l]>>
                          \in LifecycleSteps]_vars

C22_Witness ==
    /\ query.status[1] = "dormant"
    /\ layer_state[1].dormant_highlights # <<>>
    /\ next_query_event.kind = "Match"
    /\ next_query_event.layer = Root


\* the entries of a stack that were pushed by an earlier advance call, that
\* is at an earlier position
PushedEarlier(stack) == SelectSeq(stack, LAMBDA e : e.id = 0)

\* C24: start_highlight never removes an entry that an earlier advance call
\* pushed: whatever matches are handled at one position, also matches whose
\* highlight is Highlight::NONE, the entries pushed at earlier positions stay
\* on the stack.
C24_PopsOwnPosition ==
    [][InLoop("Match") =>
           PushedEarlier(active_highlights')
               = PushedEarlier(active_highlights)]_vars


\* C25: handling ExitInjection with state = None for layer L leaves the
\* entries of the stack at an index < L.parent_highlights where they are, with
\* the same end and highlight.
C25_ParentPartKept ==
    [][(InLoop("ExitInjection") /\ ~next_query_event.finished) =>
            LET L == next_query_event.layer
            IN  /\ Len(active_highlights') >= Len(Kept(L))
                /\ SubSeq(active_highlights', 1, Len(Kept(L))) = Kept(L)]_vars


\* what an advance call can change of the highlighter besides its result
Effects ==
    <<active_highlights, layer_state, query, next_query_event,
      next_highlight_start, next_highlight_end, active_config>>

\* C26: an advance call made while next_event_offset() < u32::MAX returns
\* with next_event_offset() greater than the position it processed; an advance
\* call made when next_event_offset() = u32::MAX changes nothing and returns
\* an empty RefreshHighlights.
C26_Progress ==
    [][/\ (pc = "loop" /\ pc' = "idle" /\ pos < U32MAX) =>
               Min(next_highlight_start', next_highlight_end') > pos
       /\ (pc = "idle" /\ NextEventOffset = U32MAX) => UNCHANGED Effects
       /\ (pc = "loop" /\ pos = U32MAX) =>
               /\ UNCHANGED Effects
               /\ pc' = "idle"
               /\ result' = [kind |-> "RefreshHighlights", list |-> <<>>]]_vars


(***************************************************************************)
(* Properties of Query::new and of the accessors of the query              *)
(***************************************************************************)
\* the predicate being parsed is any-of? or not-any-of?
AtAnyOf == HasPredicate /\ CurrentPredicate.name \in {"any-of?", "not-any-of?"}

\* the arguments after the first
Rest(p) == SubSeq(p.args, 2, Len(p.args))
RestAreLiterals(p) == \A i \in DOMAIN Rest(p) : Rest(p)[i].kind = "String"

\* this step appends one AnyString text predicate for p and does not invoke
\* the callback
AppendsAnyString(p) ==
    /\ Len(text_predicates') = Len(text_predicates) + 1
    /\ SubSeq(text_predicates', 1, Len(text_predicates)) = text_predicates
    /\ LET t == text_predicates'[Len(text_predicates')]
       IN  /\ t.kind = "AnyString"
           /\ t.capture = p.args[1].capture
           /\ ~t.match_all
           /\ t.negated = (p.name = "not-any-of?")
    /\ custom_predicate' = custom_predicate

\* this step invokes the callback once, with IsAnyOf of p, and appends no
\* text predicate
DeliversIsAnyOf(p) ==
    /\ Len(custom_predicate') = Len(custom_predicate) + 1
    /\ SubSeq(custom_predicate', 1, Len(custom_predicate)) = custom_predicate
    /\ LET c == custom_predicate'[Len(custom_predicate')]
       IN  /\ c.pattern = pattern
           /\ c.predicate.kind = "IsAnyOf"
           /\ c.predicate.str = p.args[1].str
           /\ c.predicate.strings = [i \in DOMAIN Rest(p) |-> Rest(p)[i].str]
           /\ c.predicate.negated = (p.name = "not-any-of?")
    /\ text_predicates' = text_predicates

\* C12 as claimed: any-of? / not-any-of? with a capture first appends
\* exactly one AnyString text predicate (match_all = false, negated iff the
\* name is not-any-of?) and does not invoke the callback; with a string
\* literal first the callback receives IsAnyOf with that value and the
\* remaining arguments, and no text predicate is appended
C12_DispatchAsClaimed ==
    [][AtAnyOf =>
        IF CurrentPredicate.args[1].kind = "Capture"
        THEN AppendsAnyString(CurrentPredicate)
        ELSE DeliversIsAnyOf(CurrentPredicate)]_vars

\* C12 amended: the dispatch is as claimed when the arguments after the
\* first are all string literals; when one of them is a capture the
\* predicate is invalid: nothing is appended, the callback is not invoked and
\* Query::new fails
C12_Dispatch ==
    [][AtAnyOf =>
        IF ~RestAreLiterals(CurrentPredicate)
        THEN /\ text_predicates' = text_predicates
             /\ custom_predicate' = custom_predicate
             /\ query_result'.kind = "InvalidPredicate"
        ELSE IF CurrentPredicate.args[1].kind = "Capture"
        THEN AppendsAnyString(CurrentPredicate)
        ELSE DeliversIsAnyOf(CurrentPredicate)]_vars

\* a query was compiled with a not-any-of? text predicate and an any-of?
\* that went to the callback
C12_Witness ==
    /\ query_result.kind = "Ok"
    /\ \E i \in DOMAIN text_predicates :
            text_predicates[i].kind = "AnyString" /\ text_predicates[i].negated
    /\ \E j \in DOMAIN custom_predicate :
            /\ custom_predicate[j].predicate.kind = "IsAnyOf"
            /\ ~custom_predicate[j].predicate.negated

\* C15: whenever the parsing of a pattern's predicates fails, Query::new
\* returns InvalidPredicate; the patterns before the failing one were
\* parsed, in index order, and the callback was not invoked for a predicate
\* after the failing one
C15_ErrorPropagation ==
    query_result.err # "none" =>
        /\ query_result.kind = "InvalidPredicate"
        /\ Len(patterns) = query_result.pattern
        /\ pattern = query_result.pattern /\ step = query_result.step
        /\ \A j \in DOMAIN custom_predicate :
                custom_predicate[j].pattern <= query_result.pattern

\* C16: get_string and capture_name call into the grammar library only
\* with an index below the count; every index at or beyond the count is
\* rejected by the assertion
C16_BoundsChecked ==
    /\ ffi.fn = "ts_query_string_value_for_id" => ffi.id < num_strings
    /\ ffi.fn = "ts_query_capture_name_for_id" => ffi.id < num_captures


(***************************************************************************)
(* Properties of the tree-cursor cache                                     *)
(***************************************************************************)
\* the raw cursors that were allocated, are not released and that no live
\* TreeCursor owns
Held == { c \in RawCursors : raw[c] # Unallocated /\ raw[c].deleted = 0
                                /\ c \notin live }

\* C17: every raw cursor is released at most once and never while a live
\* TreeCursor owns it; the CACHE holds at most one raw cursor, never one
\* that a live TreeCursor owns (or that was released); a cursor taken from
\* the CACHE is reset to the requested node before it is handed out
C17_CacheSafety ==
    /\ \A c \in RawCursors : raw[c].deleted <= 1
    /\ \A c \in live : raw[c].deleted = 0
    /\ Held \subseteq {CACHE}
    /\ CACHE # NoCursor => CACHE \notin live /\ raw[CACHE].deleted = 0
    /\ handed.op = "new" =>
            /\ handed.cursor \in live
            /\ raw[handed.cursor].node = handed.node

\* a cursor left on another node came out of the CACHE, after the cursor
\* that was in the CACHE before it was released
C17_Witness ==
    /\ handed.op = "new" /\ handed.cached
    /\ handed.was # handed.node
    /\ \E c \in RawCursors : raw[c].deleted = 1


(***************************************************************************)
(* Properties of ParserErrorLocation                                       *)
(***************************************************************************)
\* the line feeds before the offset
LineFeedsBefore(s, off) == { i \in 1 .. off : s[i] = "LF" }

\* the offset where the line of off starts: after the last line feed before
\* off
StartOfLine(s, off) ==
    IF LineFeedsBefore(s, off) = {} THEN 0
    ELSE CHOOSE i \in LineFeedsBefore(s, off) :
            \A j \in LineFeedsBefore(s, off) : j <= i

\* the codepoints that start between the start of the line and off
CodepointsBefore(s, off) ==
    { i \in StartOfLine(s, off) + 1 .. off : s[i] # "E2" }

\* the line of off: from its start to the next line feed, without a CR at
\* its end
LineOf(s, off) ==
    LET l == SubSeq(s, StartOfLine(s, off) + 1,
                    CHOOSE e \in off .. Len(s) :
                        /\ e = Len(s) \/ s[e + 1] = "LF"
                        /\ \A i \in off + 1 .. e : s[i] # "LF")
    IN  IF l # <<>> /\ l[Len(l)] = "CR" THEN SubSeq(l, 1, Len(l) - 1) ELSE l

\* the location is rendered with the 1-based line and column of the offset and
\* holds the content of its line
Located ==
    /\ location.kind = "ok"
    /\ DisplayHeader(location) =
            << Cardinality(LineFeedsBefore(error_source, error_offset)) + 1,
               Cardinality(CodepointsBefore(error_source, error_offset)) + 1 >>
    /\ location.line_content = LineOf(error_source, error_offset)

\* C14: for every source text and every byte offset inside it,
\* ParserErrorLocation::new gives the 1-based line and the 1-based column
\* (in codepoints from the line start) of the offset, as rendered, and the
\* exact content of the line of the offset without a trailing CR
C14_Location == location.kind # "none" => Located

\* the same for the offsets that are on a codepoint boundary
C14_LocationOnBoundary ==
    location.kind # "none" /\ IsCharBoundary(error_source, error_offset)
        => Located

(***************************************************************************)
(* Properties of the patterns of a compiled query                          *)
(***************************************************************************)
\* the text predicates that parse_pattern_predicates makes of the predicates
\* of a pattern of the source, in source order
TextPredicatesOf(pattern_idx) ==
    LET predicates == source[pattern_idx + 1]
        parsed_all == [i \in 1 .. Len(predicates) |->
                          ParsePredicate(predicates[i])]
    IN  SelectSeq(parsed_all, LAMBDA r : r.tag = "text")

\* C23: after a successful Query::new the text_predicates ranges of the
\* patterns partition Query::text_predicates in pattern order (the first
\* starts at 0, each starts where the one before ends, the last ends at the
\* length of the vector), and pattern_text_predicates(p) is the sequence of
\* the text predicates parsed from pattern p, in source order.
C23_RangesPartition ==
    query_result.kind = "Ok" =>
        /\ Len(patterns) = pattern_count
        /\ patterns # <<>> =>
                /\ patterns[1][1] = 0
                /\ patterns[Len(patterns)][2] = Len(text_predicates)
        /\ \A p \in 1 .. Len(patterns) - 1 :
                patterns[p + 1][1] = patterns[p][2]
        /\ \A p \in 0 .. Len(patterns) - 1 :
                /\ patterns[p + 1][1] <= patterns[p + 1][2]
                /\ pattern_text_predicates(p) = TextPredicatesOf(p)

\* a query of two patterns that both have text predicates, and a predicate
\* the callback took, was compiled
C23_Witness ==
    /\ query_result.kind = "Ok"
    /\ Len(patterns) = 2
    /\ patterns[1][2] > 0
    /\ patterns[2][2] > patterns[2][1]
    /\ custom_predicate # <<>>

\* C30: start_byte_for_pattern calls the library for every pattern index
\* below pattern_count() and panics in its assertion for every other index,
\* whatever the number of text predicates of the query is.
C30_StartByteForPattern ==
    [][\A pattern_idx \in 0 .. MaxPatterns + 1 :
           StartByteForPatternCall(pattern_idx) =>
               ffi'.fn = IF pattern_idx < pattern_count
                         THEN "ts_query_start_byte_for_pattern"
                         ELSE "panic"]_vars

(***************************************************************************)
(* Properties of HighlightQuery::new                                       *)
(***************************************************************************)
\* a predicate that is not compiled into a text predicate
IsUserPredicate(p) ==
    p.name \notin {"eq?", "not-eq?", "any-eq?", "any-not-eq?", "match?",
                   "not-match?", "any-match?", "any-not-match?"}
    /\ ~(p.name \in {"any-of?", "not-any-of?"}
            /\ p.args # <<>> /\ p.args[1].kind = "Capture")

\* (#set! local.scope-inherits) and (#set! local.scope-inherits <value>)
SetsLocalScopeInherits(p) ==
    /\ p.name = "set!"
    /\ Len(p.args) \in {1, 2}
    /\ p.args[1] = StringArg(LocalScopeInherits)
    /\ Len(p.args) = 2 => p.args[2].kind = "String"

\* the user predicates before predicate s of pattern k, in source order
UserPredicatesBefore(k, s) ==
    { <<j, i>> \in (0 .. Min(k, Len(source) - 1)) \X (1 .. 2) :
        /\ i <= Len(source[j + 1])
        /\ j = k => i <= s
        /\ IsUserPredicate(source[j + 1][i]) }

\* C29: HighlightQuery::new succeeds exactly when every user predicate of
\* the query is (#set! local.scope-inherits ...) or (#is-not? local) without
\* a value; at the first other user predicate it fails with an
\* InvalidPredicate error, and on success non_local_patterns is the set of
\* the patterns that carry (#is-not? local).
C29_HighlightQueryNew ==
    LET Allowed(p) == SetsLocalScopeInherits(p) \/ p = IsNotLocal
    IN  /\ query_result.kind \in {"running", "Ok", "InvalidPredicate"}
        /\ \A x \in UserPredicatesBefore(pattern, step) :
                Allowed(source[x[1] + 1][x[2]])
        /\ query_result.kind = "InvalidPredicate" =>
                /\ query_result.pattern = pattern /\ query_result.step = step
                /\ ParsePredicate(CurrentPredicate).tag # "text"
                /\ IsUserPredicate(CurrentPredicate) =>
                        ~Allowed(CurrentPredicate)
        /\ query_result.kind = "Ok" =>
                /\ pattern = Len(source)
                /\ highlight_non_local =
                        { k \in 0 .. Len(source) - 1 :
                            \E i \in DOMAIN source[k + 1] :
                                source[k + 1][i] = IsNotLocal }

\* a query of two patterns was accepted: one carries (#is-not? local), the
\* other (#set! local.scope-inherits false)
C29_Witness ==
    /\ query_result.kind = "Ok"
    /\ highlight_non_local = {0}
    /\ Len(source) = 2
    /\ Len(custom_predicate) = 2
    /\ custom_predicate[2].predicate.kind = "SetProperty"
    /\ custom_predicate[2].predicate.strings = <<PropertyValue>>

(***************************************************************************)
(* Properties of TreeRecursiveWalker                                       *)
(***************************************************************************)
\* C27: the walker yields no node twice, never the node it started at and
\* only nodes below it, and when next returns None every node below the
\* start node was yielded.
C27_WalksDescendants ==
    /\ \A i, j \in DOMAIN yielded : yielded[i] = yielded[j] => i = j
    /\ \A i \in DOMAIN yielded : yielded[i] \in Descendants(tree, root)
    /\ walker_done =>
            { yielded[i] : i \in DOMAIN yielded } = Descendants(tree, root)

(***************************************************************************)
(* Properties of the TreeCursor over the layers                            *)
(***************************************************************************)
\* C28: a goto_parent that directly follows a goto_first_child that returned
\* true returns true and leaves the cursor on the node and in the layer it
\* was on before the goto_first_child, also when goto_first_child switched
\* into an injection layer.
C28_RoundTrip ==
    [][(GotoParent /\ last.op = "goto_first_child" /\ last.moved) =>
            /\ last'.moved
            /\ current' = last.current
            /\ layer_cursor' = last.node]_vars

====
